---- MODULE Spec2Model ----
(***************************************************************************)
(* The session / result state machine of the App component (src/App.tsx,   *)
(* the version with upscale, aspect ratio and outfit generation, lines     *)
(* 238-606), with the stores it owns (characters, gallery) and the         *)
(* asynchronous continuations its handlers leave behind: gateway calls in  *)
(* flight, file reads in flight and gallery re-imports in flight.          *)
(*                                                                         *)
(* A React handler is a closure over the state of the render it was        *)
(* created in.  What a handler reads AFTER an await is that render's       *)
(* state, not the current one; what it writes with a functional updater    *)
(* (prev => ...) is applied to the current state.  The records kept in     *)
(* mainFlights hold the render state a suspended handler closed over.      *)
(***************************************************************************)
EXTENDS Naturals, Integers, Sequences, FiniteSets, TLC

(***************************************************************************)
(* Bounds of the model.                                                    *)
(***************************************************************************)
MaxGallery == 2      \* gallery entries (entries already there + requests that may add one)
MaxPending == 1      \* file reads and gallery re-imports that may be suspended at once
MaxUuid == 2         \* ids the character creator may mint
MaxParts == 2        \* parts (or generated images) in one provider response
MaxFragments == 2    \* fragments in the message of an error the provider throws
MaxReads == 2        \* reads of handleImageUpload suspended at once when uploads overlap
MaxSelected == 3     \* files in one selection of the character creator's file input
MaxBatches == 2      \* selections of the character creator that may be read at once
MaxPolls == 3        \* polls the provider may answer with an operation that is not done
MaxBytes == 3        \* bytes of a file taken through fileToBase64 and back

(***************************************************************************)
(* Values.                                                                 *)
(***************************************************************************)
Images == {"a", "b"}                 \* base64 payloads the provider may return
Modes == {"generate", "edit"}        \* type Mode
Prompts == {"", "p"}                 \* "" is the empty (falsy) prompt
AspectRatios == {"1:1", "16:9"}      \* two of the five ratios of AspectRatioSelector
FaithfulnessValues == {50, 75}       \* two positions of the StrengthSlider
Names == {"n1", "n2"}                \* names typed into the character creator
Descriptions == {"d1"}               \* descriptions typed into the character creator
Portraits == {"b"}                   \* portraits uploaded or generated in the character creator

Null == "null"                       \* null of a string-valued state (error, selectedCharacterId)
NoResult == [editedImageBase64 |-> ""]          \* result === null
NoFile == [base64 |-> "", mimeType |-> ""]      \* uploadedImageData / imagePreview === null

\* EditResult: only editedImageBase64 is ever read back from a result.
EditResult(img) == [editedImageBase64 |-> img]
\* GalleryItem: { ...res, id }
GalleryItem(res, id) == [id |-> id, editedImageBase64 |-> res.editedImageBase64]

\* The file a user may pick in the ImageUploader.
UserFiles == {[base64 |-> "a", mimeType |-> "image/jpeg"]}
\* new File([blob], ..., { type: 'image/png' }) built from a gallery entry
PngFile(img) == [base64 |-> img, mimeType |-> "image/png"]

\* A character as persisted; id 0 was minted in an earlier session.
StoredCharacter == [id |-> 0, name |-> "n0", description |-> "d0", referenceImageBase64 |-> "a"]
NoCharacter == [id |-> -1, name |-> "", description |-> "", referenceImageBase64 |-> ""]
NoId == -1                           \* selectedCharacterId === null

\* Messages of the session's error state.
ErrNoPrompt == "Please enter a prompt."
ErrNoImage == "Please upload an image to edit."
ErrNoResult == "No result image available to upscale."
ErrRead == "Could not read the uploaded file."
\* What handleApiError throws: the message names the operation that failed.
GatewayError(kind) ==
    CASE kind = "generate" -> "Failed to generate the image"
      [] kind = "edit" -> "Failed to edit the image"
      [] kind = "upscale" -> "Failed to upscale the image"
      [] OTHER -> "Failed to generate outfit"

VARIABLES
    mode, prompt, uploadedImageData, imagePreview,
    isLoading, isUpscaling, error, result,
    galleryImages, characters, selectedCharacterId,
    imageFaithfulness, aspectRatio,
    mainFlights,      \* suspended handleSubmit / handleUpscale calls, with their closures
    fileReads,        \* files handleImageUpload is still reading
    gallerySelects,   \* gallery items handleGallerySelect is still fetching
    nextUuid,         \* uuidv4(): the next fresh id
    \* App state of the two modals
    isCharCreatorOpen, characterToEdit,
    isOutfitGeneratorOpen, characterForOutfitGenerator,
    \* state of OutfitGeneratorModal (components/LookbookModal.tsx)
    outfitPrompt, generatedOutfit, outfitIsLoading, outfitError,
    outfitFlights,    \* suspended OutfitGeneratorModal.handleGenerate calls
    outfitSelects,    \* outfit images handleOutfitImageSelect is still fetching
    \* one call of a geminiService operation (services/geminiService.ts)
    gwOp,             \* the operation called, "none" before the first call
    gwPhase,          \* "idle", "awaiting" (the provider request is out), "returned", "thrown"
    gwArgs,           \* the arguments of the call
    gwRequest,        \* the parts of the provider request the call has sent
    gwRequests,       \* how many provider requests the call has issued
    gwReturn,         \* the EditResult the call returned
    gwError,          \* the message of the Error the call threw
    gwCaught,         \* the message of the error the call's catch received
    gwResponse,       \* the parts of the response the provider gave to the request
    \* durable local storage and the App's life cycle
    lsCharacters,     \* the value under the key 'mj-ai-characters'
    lsGallery,        \* the value under the key 'mj-ai-gallery'
    lsStartup,        \* what the two keys held before the App mounted
    lsFallible,       \* TRUE when localStorage.setItem may throw (quota, disabled storage)
    appPhase,         \* "unmounted", "mounted" (first effects ran), "ready", "crashed"
    rehydration,      \* the state updates the load effect has queued for the next render
    \* state of CharacterCreatorModal (components/CharacterCreatorModal.tsx)
    referenceImages,  \* the reference images shown in the modal
    refReads,         \* selections handleFileChange is still reading, one batch per selection
    creatorError,     \* the modal's error
    \* one call of geminiService.generateVideo and the provider's operation
    vidPhase,         \* "idle", "starting", "checking", "waiting", "polling", "returned", "thrown"
    vidArgs,          \* the arguments of the call
    vidJob,           \* the provider's side of the operation
    vidOperation,     \* the operation handle the call holds
    vidPolls,         \* how often the call has asked for the operation again
    vidWaited,        \* milliseconds of the timer the call set before its latest poll
    vidResult,        \* what the call settled with
    \* one file taken through fileToBase64 and back
    tcFile,           \* the file chosen
    tcPhase,          \* "idle", "chosen", "encoded", "failed", "decoded"
    tcEncoded,        \* what fileToBase64 resolved with
    tcDecoded         \* the file rebuilt from the encoded data

\* The state of one gateway call.
gatewayVars == <<gwOp, gwPhase, gwArgs, gwRequest, gwRequests, gwReturn, gwError,
                gwCaught, gwResponse>>

\* The state of the App and its modals.
appVars == <<mode, prompt, uploadedImageData, imagePreview, isLoading, isUpscaling, error,
             result, galleryImages, characters, selectedCharacterId, imageFaithfulness,
             aspectRatio, mainFlights, fileReads, gallerySelects, nextUuid,
             isCharCreatorOpen, characterToEdit, isOutfitGeneratorOpen,
             characterForOutfitGenerator, outfitPrompt, generatedOutfit, outfitIsLoading,
             outfitError, outfitFlights, outfitSelects>>

\* The App's life cycle; no handler of the page writes these.
lifecycleVars == <<lsStartup, lsFallible, appPhase, rehydration>>

\* Durable local storage and the life cycle.
storageVars == <<lsCharacters, lsGallery, lifecycleVars>>

\* The form of the character creator beyond what the App holds.
creatorFormVars == <<referenceImages, refReads, creatorError>>

\* The video call and the transcoding of one file.
videoVars == <<vidPhase, vidArgs, vidJob, vidOperation, vidPolls, vidWaited, vidResult>>
transcodingVars == <<tcFile, tcPhase, tcEncoded, tcDecoded>>
asideVars == <<videoVars, transcodingVars>>

\* What no handler of the page writes.
offPageVars == <<gatewayVars, lifecycleVars, creatorFormVars, asideVars>>

\* What no gateway operation writes.
nonGatewayVars == <<appVars, storageVars, creatorFormVars, asideVars>>

vars == <<appVars, gatewayVars, storageVars, creatorFormVars, asideVars>>

\* The state of the outfit generator and of the character creator.
outfitVars == <<isOutfitGeneratorOpen, characterForOutfitGenerator, outfitPrompt,
                generatedOutfit, outfitIsLoading, outfitError, outfitFlights,
                outfitSelects>>
creatorVars == <<isCharCreatorOpen, characterToEdit>>

(***************************************************************************)
(* Values of the gateway (services/geminiService.ts).                      *)
(***************************************************************************)
GatewayOps == {"editImage", "generateImage", "upscaleImage", "generateCharacterImage",
               "generateOutfitForCharacter"}

\* The context each operation passes to handleApiError.
Context(op) ==
    CASE op = "editImage" -> "edit the image"
      [] op = "generateImage" -> "generate the image"
      [] op = "upscaleImage" -> "upscale the image"
      [] op = "generateCharacterImage" -> "generate the character portrait"
      [] OTHER -> "generate outfit for the character"

\* A character whose referenceImageBase64 is missing (the field is optional).
BareCharacter == [id |-> 0, name |-> "n0", description |-> "d0", referenceImageBase64 |-> ""]
GwCharacters == {NoCharacter, StoredCharacter, BareCharacter}

\* The arguments of a call; an operation reads the ones it declares.
NoArgs == [prompt |-> "", character |-> NoCharacter, faithfulness |-> 0,
           additionalImage |-> NoFile, imageBase64 |-> "", referenceImages |-> <<>>]

\* An error message is a sequence of fragments; String.includes(k) finds the
\* fragment k in it, String.toLowerCase() lower-cases every fragment.
ProviderFragments == {"xhr error", "XHR Error", "500", "network", "Network",
                      "failed to fetch", "Failed to Fetch",
                      "Requested entity was not found.",
                      "requested entity was not found.",
                      "safety", "SAFETY", "quota exceeded"}

toLowerCase(fragment) ==
    CASE fragment = "XHR Error" -> "xhr error"
      [] fragment = "Network" -> "network"
      [] fragment = "Failed to Fetch" -> "failed to fetch"
      [] fragment = "Requested entity was not found." -> "requested entity was not found."
      [] fragment = "SAFETY" -> "safety"
      [] OTHER -> fragment

includes(message, keyword) == \E i \in DOMAIN message : message[i] = keyword
includesLower(message, keyword) == \E i \in DOMAIN message : toLowerCase(message[i]) = keyword

\* The messages the provider may throw: 1..MaxFragments fragments.
ProviderMessages == UNION {[1..n -> ProviderFragments] : n \in 1..MaxFragments}

\* The messages of handleApiError's second and third branch.
SafetyMessage(context) == <<"The request to ", context, " was blocked for safety reasons.">>
GenericMessage(context) == <<"Failed to ", context, ": An unexpected error occurred.">>

\* handleApiError(e, context): the message of the Error it throws
handleApiError(errorMessage, context) ==
    IF \/ includes(errorMessage, "xhr error")
       \/ includes(errorMessage, "500")
       \/ includesLower(errorMessage, "network")
       \/ includesLower(errorMessage, "failed to fetch")
       \/ includes(errorMessage, "Requested entity was not found.")
    THEN errorMessage
    ELSE IF includesLower(errorMessage, "safety")
    THEN SafetyMessage(context)
    ELSE GenericMessage(context)

\* A faulty getFaithfulnessInstruction whose bands exclude their upper bound.
getFaithfulnessInstructionExclusive(faithfulness) ==
    IF faithfulness < 20 THEN "The character's likeness is a loose inspiration"
    ELSE IF faithfulness < 40 THEN "The output should resemble the character"
    ELSE IF faithfulness < 60 THEN "The output should be a clear representation"
    ELSE IF faithfulness < 80 THEN "A very close and accurate likeness"
    ELSE "It is CRITICAL that the result is an EXACT match"

\* getFaithfulnessInstruction(faithfulness): the opening words of the five strings
getFaithfulnessInstruction(faithfulness) ==
    IF faithfulness <= 20 THEN "The character's likeness is a loose inspiration"
    ELSE IF faithfulness <= 40 THEN "The output should resemble the character"
    ELSE IF faithfulness <= 60 THEN "The output should be a clear representation"
    ELSE IF faithfulness <= 80 THEN "A very close and accurate likeness"
    ELSE "It is CRITICAL that the result is an EXACT match"

\* A part of a request or of a response.  roles and faithfulness are what an
\* instruction text says about the images and the likeness.
ImagePart(data) ==
    [kind |-> "inlineData", data |-> data, text |-> "", roles |-> <<>>, faithfulness |-> ""]
TextPart(text) ==
    [kind |-> "text", data |-> "", text |-> text, roles |-> <<>>, faithfulness |-> ""]
InstructionPart(roles, faithfulnessInstruction) ==
    [kind |-> "text", data |-> "", text |-> "instruction", roles |-> roles,
     faithfulness |-> faithfulnessInstruction]

\* `- The IMAGE #${n} is ...`
ImageRole(n, role) == [n |-> n, role |-> role]

\* The parts a provider response may hold: images (one with empty data) and texts.
ResponsePartValues == {ImagePart("a"), ImagePart("b"), ImagePart(""),
                       TextPart("t1"), TextPart("t2")}
Responses == UNION {[1..n -> ResponsePartValues] : n \in 0..MaxParts}

\* response.generatedImages of the Imagen model: the imageBytes of each image.
GeneratedImages == UNION {[1..n -> {"a", "b", ""}] : n \in 0..MaxParts}

NoReturn == [editedImageBase64 |-> "", editedText |-> ""]

(***************************************************************************)
(* Helpers on sequences.                                                   *)
(***************************************************************************)
RemoveAt(s, i) == SubSeq(s, 1, i - 1) \o SubSeq(s, i + 1, Len(s))

\* Array.prototype.findIndex on the image payload: the first match, 0 if none.
FindByImage(gallery, img) ==
    IF \E i \in DOMAIN gallery : gallery[i].editedImageBase64 = img
    THEN CHOOSE i \in DOMAIN gallery :
            /\ gallery[i].editedImageBase64 = img
            /\ \A j \in 1..(i - 1) : gallery[j].editedImageBase64 # img
    ELSE 0

\* const selectedCharacter = useMemo(...characters.find(c => c.id === selectedCharacterId) ?? null)
selectedCharacter ==
    IF \E i \in DOMAIN characters : characters[i].id = selectedCharacterId
    THEN characters[CHOOSE i \in DOMAIN characters : characters[i].id = selectedCharacterId]
    ELSE NoCharacter

\* A faulty isSubmitDisabled that forgets isLoading.
isSubmitDisabledIgnoringLoading ==
    prompt = "" \/ (mode = "edit" /\ uploadedImageData = NoFile)

\* const isSubmitDisabled = isLoading || !prompt || (mode === 'edit' && !uploadedImageData)
isSubmitDisabled ==
    isLoading \/ prompt = "" \/ (mode = "edit" /\ uploadedImageData = NoFile)

\* Room left in the gallery for one more request that may append to it.
GalleryHasRoom == Len(galleryImages) + Len(mainFlights) + outfitFlights < MaxGallery

\* Room left for one more suspended file read or gallery re-import.
PendingHasRoom == Len(fileReads) + Len(gallerySelects) + Len(outfitSelects) < MaxPending

(***************************************************************************)
(* Durable local storage (localStorage) and the save effects of App.       *)
(***************************************************************************)
\* What a key may hold besides the serialization of a list.
Missing == [kind |-> "missing", list |-> <<>>]      \* getItem returns null
Corrupt == [kind |-> "corrupt", list |-> <<>>]      \* text JSON.parse throws on
NotAList == [kind |-> "null", list |-> <<>>]        \* the text 'null': parses, to no array

\* JSON.stringify(list)
stringify(list) == [kind |-> "json", list |-> list]

\* JSON.parse(text) throws
parseThrows(text) == text.kind = "corrupt"

\* JSON.parse(text) for a text it does not throw on: a list, or null
parse(text) == [kind |-> IF text.kind = "json" THEN "list" ELSE "null", list |-> text.list]

\* if (storedCharacters): null and the empty string are falsy
present(text) == text.kind # "missing"

\* No state update is queued.
NoUpdate == [kind |-> "none", list |-> <<>>]
NoRehydration == [characters |-> NoUpdate, gallery |-> NoUpdate]

\* The video call before it is made.
NoVideoArgs == [prompt |-> "", image |-> NoFile, aspectRatio |-> "16:9"]
NoOperation == [done |-> FALSE, uri |-> ""]
NoVideo == [kind |-> "none", videoUrl |-> "", prompt |-> "", message |-> <<>>]

\* No file chosen, nothing encoded.
NoBinary == [bytes |-> <<>>, type |-> ""]
NoEncoded == [base64 |-> <<>>, mimeType |-> ""]

\* localStorage.setItem(key, JSON.stringify(list)) inside try/catch: the key takes
\* the new text, or keeps the old one when setItem throws.
setItem(old, list) ==
    IF lsFallible THEN {stringify(list), old} ELSE {stringify(list)}

\* Faulty save effects that forget the gallery.
saveEffectsCharactersOnly ==
    /\ lsCharacters' \in IF characters' # characters
                         THEN setItem(lsCharacters, characters') ELSE {lsCharacters}
    /\ lsGallery' = lsGallery

\* The two save effects, run after a render in which their list has changed.
saveEffects ==
    /\ lsCharacters' \in IF characters' # characters
                         THEN setItem(lsCharacters, characters') ELSE {lsCharacters}
    /\ lsGallery' \in IF galleryImages' # galleryImages
                      THEN setItem(lsGallery, galleryImages') ELSE {lsGallery}

(***************************************************************************)
(* Init: the state after the first render and its mount effect with an     *)
(* empty gallery and one persisted character in storage.                   *)
(***************************************************************************)
Init ==
    /\ mode = "generate"
    /\ prompt = ""
    /\ uploadedImageData = NoFile
    /\ imagePreview = NoFile
    /\ isLoading = FALSE
    /\ isUpscaling = FALSE
    /\ error = Null
    /\ result = NoResult
    /\ galleryImages = <<>>
    /\ characters = <<StoredCharacter>>
    /\ selectedCharacterId = NoId
    /\ imageFaithfulness = 50
    /\ aspectRatio = "1:1"
    /\ mainFlights = <<>>
    /\ fileReads = <<>>
    /\ gallerySelects = <<>>
    /\ nextUuid = 1
    /\ isCharCreatorOpen = FALSE
    /\ characterToEdit = NoCharacter
    /\ isOutfitGeneratorOpen = FALSE
    /\ characterForOutfitGenerator = NoCharacter
    /\ outfitPrompt = ""
    /\ generatedOutfit = NoResult
    /\ outfitIsLoading = FALSE
    /\ outfitError = Null
    /\ outfitFlights = 0
    /\ outfitSelects = <<>>
    /\ gwOp = "none"
    /\ gwPhase = "idle"
    /\ gwArgs = NoArgs
    /\ gwRequest = <<>>
    /\ gwRequests = 0
    /\ gwReturn = NoReturn
    /\ gwError = <<>>
    /\ gwCaught = <<>>
    /\ gwResponse = <<>>
    /\ lsCharacters = stringify(<<StoredCharacter>>)
    /\ lsGallery = stringify(<<>>)
    /\ lsStartup = [characters |-> stringify(<<StoredCharacter>>), gallery |-> Missing]
    /\ lsFallible = FALSE
    /\ appPhase = "ready"
    /\ rehydration = NoRehydration
    /\ referenceImages = <<>>
    /\ refReads = <<>>
    /\ creatorError = Null
    /\ vidPhase = "idle"
    /\ vidArgs = NoVideoArgs
    /\ vidJob = "none"
    /\ vidOperation = NoOperation
    /\ vidPolls = 0
    /\ vidWaited = 0
    /\ vidResult = NoVideo
    /\ tcFile = NoBinary
    /\ tcPhase = "idle"
    /\ tcEncoded = NoEncoded
    /\ tcDecoded = NoBinary

(***************************************************************************)
(* Plain setters reachable from the rendered controls.                     *)
(***************************************************************************)
\* <PromptInput onChange={setPrompt} disabled={isLoading} />
setPrompt(p) ==
    /\ ~isLoading
    /\ prompt' = p
    /\ UNCHANGED <<offPageVars, mode, uploadedImageData, imagePreview, isLoading, isUpscaling, error,
                   result, galleryImages, characters, selectedCharacterId,
                   imageFaithfulness, aspectRatio, mainFlights, fileReads,
                   gallerySelects, nextUuid,
                   outfitVars, creatorVars>>
    /\ saveEffects

\* <AspectRatioSelector ... disabled={isLoading} />, rendered in generate mode only
setAspectRatio(r) ==
    /\ mode = "generate"
    /\ ~isLoading
    /\ aspectRatio' = r
    /\ UNCHANGED <<offPageVars, mode, prompt, uploadedImageData, imagePreview, isLoading, isUpscaling,
                   error, result, galleryImages, characters, selectedCharacterId,
                   imageFaithfulness, mainFlights, fileReads, gallerySelects, nextUuid,
                   outfitVars, creatorVars>>
    /\ saveEffects

\* <StrengthSlider onChange={setImageFaithfulness} />, rendered while a character is selected
setImageFaithfulness(v) ==
    /\ selectedCharacterId # NoId
    /\ imageFaithfulness' = v
    /\ UNCHANGED <<offPageVars, mode, prompt, uploadedImageData, imagePreview, isLoading, isUpscaling,
                   error, result, galleryImages, characters, selectedCharacterId,
                   aspectRatio, mainFlights, fileReads, gallerySelects, nextUuid,
                   outfitVars, creatorVars>>
    /\ saveEffects

\* CharacterGallery: onClick={() => !disabled && onSelectCharacter(char.id === selectedCharacterId ? null : char.id)}
onSelectCharacter(i) ==
    /\ i \in DOMAIN characters
    /\ ~isLoading
    /\ selectedCharacterId' =
         IF characters[i].id = selectedCharacterId THEN NoId ELSE characters[i].id
    /\ UNCHANGED <<offPageVars, mode, prompt, uploadedImageData, imagePreview, isLoading, isUpscaling,
                   error, result, galleryImages, characters, imageFaithfulness,
                   aspectRatio, mainFlights, fileReads, gallerySelects, nextUuid,
                   outfitVars, creatorVars>>
    /\ saveEffects

(***************************************************************************)
(* handleModeChange                                                        *)
(***************************************************************************)
\* A faulty handleModeChange that also clears the prompt.
handleModeChangeClearingPrompt(newMode) ==
    /\ mode' = newMode
    /\ result' = NoResult
    /\ error' = Null
    /\ prompt' = ""
    /\ UNCHANGED <<offPageVars, uploadedImageData, imagePreview, isLoading, isUpscaling,
                   galleryImages, characters, selectedCharacterId, imageFaithfulness,
                   aspectRatio, mainFlights, fileReads, gallerySelects, nextUuid,
                   outfitVars, creatorVars>>
    /\ saveEffects

handleModeChange(newMode) ==
    /\ mode' = newMode
    /\ result' = NoResult
    /\ error' = Null
    /\ UNCHANGED <<offPageVars, prompt, uploadedImageData, imagePreview, isLoading, isUpscaling,
                   galleryImages, characters, selectedCharacterId, imageFaithfulness,
                   aspectRatio, mainFlights, fileReads, gallerySelects, nextUuid,
                   outfitVars, creatorVars>>
    /\ saveEffects

(***************************************************************************)
(* handleImageUpload and the read it awaits                                *)
(***************************************************************************)
\* The part of handleImageUpload that runs before its await, without the result
\* (its callers in a promise continuation set the result again afterwards).
BeginUpload(file) ==
    /\ uploadedImageData' = NoFile
    /\ error' = Null
    /\ imagePreview' = file
    /\ fileReads' = Append(fileReads, file)

\* <ImageUploader onImageUpload={handleImageUpload} />, rendered in edit mode only
handleImageUpload(file) ==
    /\ mode = "edit"
    /\ PendingHasRoom
    /\ BeginUpload(file)
    /\ result' = NoResult
    /\ UNCHANGED <<offPageVars, mode, prompt, isLoading, isUpscaling, galleryImages, characters,
                   selectedCharacterId, imageFaithfulness, aspectRatio, mainFlights,
                   gallerySelects, nextUuid,
                   outfitVars, creatorVars>>
    /\ saveEffects

\* const data = await fileToBase64(file); setUploadedImageData(data)
FileReadResolves(i) ==
    /\ i \in DOMAIN fileReads
    /\ uploadedImageData' = [base64 |-> fileReads[i].base64, mimeType |-> fileReads[i].mimeType]
    /\ fileReads' = RemoveAt(fileReads, i)
    /\ UNCHANGED <<offPageVars, mode, prompt, imagePreview, isLoading, isUpscaling, error, result,
                   galleryImages, characters, selectedCharacterId, imageFaithfulness,
                   aspectRatio, mainFlights, gallerySelects, nextUuid,
                   outfitVars, creatorVars>>
    /\ saveEffects

\* catch(e) { URL.revokeObjectURL(newPreview); setImagePreview(null); setError(...) }
FileReadRejects(i) ==
    /\ i \in DOMAIN fileReads
    /\ imagePreview' = NoFile
    /\ error' = ErrRead
    /\ fileReads' = RemoveAt(fileReads, i)
    /\ UNCHANGED <<offPageVars, mode, prompt, uploadedImageData, isLoading, isUpscaling, result,
                   galleryImages, characters, selectedCharacterId, imageFaithfulness,
                   aspectRatio, mainFlights, gallerySelects, nextUuid,
                   outfitVars, creatorVars>>
    /\ saveEffects

(***************************************************************************)
(* handleSubmit                                                            *)
(***************************************************************************)
\* What a suspended handler closed over: the state of the render it was created in.
Closure(kind) == [kind |-> kind, result |-> result, galleryImages |-> galleryImages]

\* A faulty handleSubmit without its two validation returns.
handleSubmitUnvalidated ==
    /\ GalleryHasRoom
    /\ isLoading' = TRUE
    /\ error' = Null
    /\ result' = NoResult
    /\ mainFlights' = Append(mainFlights, Closure(mode))
    /\ UNCHANGED <<offPageVars, mode, prompt, uploadedImageData, imagePreview, isUpscaling,
                   galleryImages, characters, selectedCharacterId,
                   imageFaithfulness, aspectRatio, fileReads, gallerySelects,
                   nextUuid, outfitVars, creatorVars>>
    /\ saveEffects

\* The handler up to its await.
handleSubmit ==
    IF prompt = ""
    THEN /\ error' = ErrNoPrompt
         /\ UNCHANGED <<offPageVars, mode, prompt, uploadedImageData, imagePreview, isLoading,
                        isUpscaling, result, galleryImages, characters,
                        selectedCharacterId, imageFaithfulness, aspectRatio,
                        mainFlights, fileReads, gallerySelects, nextUuid,
                   outfitVars, creatorVars>>
         /\ saveEffects
    ELSE IF mode = "edit" /\ uploadedImageData = NoFile
    THEN /\ error' = ErrNoImage
         /\ UNCHANGED <<offPageVars, mode, prompt, uploadedImageData, imagePreview, isLoading,
                        isUpscaling, result, galleryImages, characters,
                        selectedCharacterId, imageFaithfulness, aspectRatio,
                        mainFlights, fileReads, gallerySelects, nextUuid,
                   outfitVars, creatorVars>>
         /\ saveEffects
    ELSE /\ GalleryHasRoom
         /\ isLoading' = TRUE
         /\ error' = Null
         /\ result' = NoResult
         /\ mainFlights' = Append(mainFlights, Closure(mode))
         /\ UNCHANGED <<offPageVars, mode, prompt, uploadedImageData, imagePreview, isUpscaling,
                        galleryImages, characters, selectedCharacterId,
                        imageFaithfulness, aspectRatio, fileReads, gallerySelects,
                        nextUuid,
                   outfitVars, creatorVars>>
         /\ saveEffects

\* <button onClick={handleSubmit} disabled={isSubmitDisabled}>
ClickGenerate ==
    /\ ~isSubmitDisabled
    /\ handleSubmit

\* editImage / generateImage resolved with res: setResult(res); setGalleryImages(prev => [{...res, id: uuidv4()}, ...prev]); finally setIsLoading(false)
SubmitResolves(i, img) ==
    /\ i \in DOMAIN mainFlights
    /\ mainFlights[i].kind \in {"generate", "edit"}
    /\ result' = EditResult(img)
    /\ galleryImages' = <<GalleryItem(EditResult(img), nextUuid)>> \o galleryImages
    /\ nextUuid' = nextUuid + 1
    /\ isLoading' = FALSE
    /\ mainFlights' = RemoveAt(mainFlights, i)
    /\ UNCHANGED <<offPageVars, mode, prompt, uploadedImageData, imagePreview, isUpscaling, error,
                   characters, selectedCharacterId, imageFaithfulness, aspectRatio,
                   fileReads, gallerySelects,
                   outfitVars, creatorVars>>
    /\ saveEffects

\* A faulty catch branch that also clears the prompt.
SubmitRejectsClearingPrompt(i) ==
    /\ i \in DOMAIN mainFlights
    /\ mainFlights[i].kind \in {"generate", "edit"}
    /\ error' = GatewayError(mainFlights[i].kind)
    /\ prompt' = ""
    /\ isLoading' = FALSE
    /\ mainFlights' = RemoveAt(mainFlights, i)
    /\ UNCHANGED <<offPageVars, mode, uploadedImageData, imagePreview, isUpscaling, result,
                   galleryImages, characters, selectedCharacterId, imageFaithfulness,
                   aspectRatio, fileReads, gallerySelects, nextUuid,
                   outfitVars, creatorVars>>
    /\ saveEffects

\* editImage / generateImage threw: setError(e.message); finally setIsLoading(false)
SubmitRejects(i) ==
    /\ i \in DOMAIN mainFlights
    /\ mainFlights[i].kind \in {"generate", "edit"}
    /\ error' = GatewayError(mainFlights[i].kind)
    /\ isLoading' = FALSE
    /\ mainFlights' = RemoveAt(mainFlights, i)
    /\ UNCHANGED <<offPageVars, mode, prompt, uploadedImageData, imagePreview, isUpscaling, result,
                   galleryImages, characters, selectedCharacterId, imageFaithfulness,
                   aspectRatio, fileReads, gallerySelects, nextUuid,
                   outfitVars, creatorVars>>
    /\ saveEffects

(***************************************************************************)
(* handleUpscale                                                           *)
(***************************************************************************)
\* The handler up to its await.
handleUpscale ==
    IF result.editedImageBase64 = ""
    THEN /\ error' = ErrNoResult
         /\ UNCHANGED <<offPageVars, mode, prompt, uploadedImageData, imagePreview, isLoading,
                        isUpscaling, result, galleryImages, characters,
                        selectedCharacterId, imageFaithfulness, aspectRatio,
                        mainFlights, fileReads, gallerySelects, nextUuid,
                   outfitVars, creatorVars>>
         /\ saveEffects
    ELSE /\ GalleryHasRoom
         /\ isUpscaling' = TRUE
         /\ isLoading' = TRUE
         /\ error' = Null
         /\ mainFlights' = Append(mainFlights, Closure("upscale"))
         /\ UNCHANGED <<offPageVars, mode, prompt, uploadedImageData, imagePreview, result,
                        galleryImages, characters, selectedCharacterId,
                        imageFaithfulness, aspectRatio, fileReads, gallerySelects,
                        nextUuid,
                   outfitVars, creatorVars>>
         /\ saveEffects

\* {result && (<button onClick={handleUpscale} disabled={isLoading}>)}
ClickUpscale ==
    /\ result # NoResult
    /\ ~isLoading
    /\ handleUpscale

\* prev.map(img => img.id === oldId ? { ...res, id: oldId } : img)
ReplaceById(prev, oldId, res) ==
    [j \in DOMAIN prev |-> IF prev[j].id = oldId THEN GalleryItem(res, oldId) ELSE prev[j]]

\* A faulty completion of handleUpscale that prepends a new entry whether or not
\* the upscaled image came from the gallery.
UpscaleResolvesAlwaysPrepending(i, img) ==
    /\ i \in DOMAIN mainFlights
    /\ mainFlights[i].kind = "upscale"
    /\ result' = EditResult(img)
    /\ galleryImages' = <<GalleryItem(EditResult(img), nextUuid)>> \o galleryImages
    /\ nextUuid' = nextUuid + 1
    /\ isLoading' = FALSE
    /\ isUpscaling' = FALSE
    /\ mainFlights' = RemoveAt(mainFlights, i)
    /\ UNCHANGED <<offPageVars, mode, prompt, uploadedImageData, imagePreview, error, characters,
                   selectedCharacterId, imageFaithfulness, aspectRatio, fileReads,
                   gallerySelects,
                   outfitVars, creatorVars>>
    /\ saveEffects

\* upscaleImage resolved with res.  targetImage and galleryImages are the ones of
\* the render in which Upscale was clicked; the updaters run on the current list.
UpscaleResolves(i, img) ==
    /\ i \in DOMAIN mainFlights
    /\ mainFlights[i].kind = "upscale"
    /\ LET targetImage == mainFlights[i].result.editedImageBase64
           seen == mainFlights[i].galleryImages
           k == FindByImage(seen, targetImage)
           res == EditResult(img)
       IN  /\ result' = res
           /\ IF k # 0
              THEN /\ galleryImages' = ReplaceById(galleryImages, seen[k].id, res)
                   /\ nextUuid' = nextUuid
              ELSE /\ galleryImages' = <<GalleryItem(res, nextUuid)>> \o galleryImages
                   /\ nextUuid' = nextUuid + 1
    /\ isLoading' = FALSE
    /\ isUpscaling' = FALSE
    /\ mainFlights' = RemoveAt(mainFlights, i)
    /\ UNCHANGED <<offPageVars, mode, prompt, uploadedImageData, imagePreview, error, characters,
                   selectedCharacterId, imageFaithfulness, aspectRatio, fileReads,
                   gallerySelects,
                   outfitVars, creatorVars>>
    /\ saveEffects

\* A faulty catch of handleUpscale that also drops the current result.
handleUpscaleCatchClearingResult ==
    /\ error' = GatewayError("upscale")
    /\ isLoading' = FALSE
    /\ isUpscaling' = FALSE
    /\ result' = NoResult
    /\ galleryImages' = galleryImages

\* catch (e) { setError(e.message) } finally { setIsLoading(false); setIsUpscaling(false) }:
\* neither block calls setResult or setGalleryImages.
handleUpscaleCatch ==
    /\ error' = GatewayError("upscale")
    /\ isLoading' = FALSE
    /\ isUpscaling' = FALSE
    /\ result' = result
    /\ galleryImages' = galleryImages

\* upscaleImage threw
UpscaleRejects(i) ==
    /\ i \in DOMAIN mainFlights
    /\ mainFlights[i].kind = "upscale"
    /\ handleUpscaleCatch
    /\ mainFlights' = RemoveAt(mainFlights, i)
    /\ UNCHANGED <<offPageVars, mode, prompt, uploadedImageData, imagePreview,
                   characters, selectedCharacterId, imageFaithfulness, aspectRatio,
                   fileReads, gallerySelects, nextUuid,
                   outfitVars, creatorVars>>
    /\ saveEffects

(***************************************************************************)
(* handleGallerySelect                                                     *)
(***************************************************************************)
\* <Gallery onImageSelect={handleGallerySelect} />: fetch(dataUrl) is started
handleGallerySelect(k) ==
    /\ k \in DOMAIN galleryImages
    /\ PendingHasRoom
    /\ gallerySelects' = Append(gallerySelects, galleryImages[k])
    /\ UNCHANGED <<offPageVars, mode, prompt, uploadedImageData, imagePreview, isLoading, isUpscaling,
                   error, result, galleryImages, characters, selectedCharacterId,
                   imageFaithfulness, aspectRatio, mainFlights, fileReads, nextUuid,
                   outfitVars, creatorVars>>
    /\ saveEffects

\* .then(blob => { handleImageUpload(file); setResult(item); setMode('edit'); })
GallerySelectContinues(i) ==
    /\ i \in DOMAIN gallerySelects
    /\ BeginUpload(PngFile(gallerySelects[i].editedImageBase64))
    /\ result' = EditResult(gallerySelects[i].editedImageBase64)
    /\ mode' = "edit"
    /\ gallerySelects' = RemoveAt(gallerySelects, i)
    /\ UNCHANGED <<offPageVars, prompt, isLoading, isUpscaling, galleryImages, characters,
                   selectedCharacterId, imageFaithfulness, aspectRatio, mainFlights,
                   nextUuid,
                   outfitVars, creatorVars>>
    /\ saveEffects

(***************************************************************************)
(* OutfitGeneratorModal (components/LookbookModal.tsx) and its App side    *)
(***************************************************************************)
\* CharacterGallery: if (!disabled) onGenerateOutfits(char)
handleOpenOutfitGenerator(i) ==
    /\ i \in DOMAIN characters
    /\ ~isLoading
    /\ characterForOutfitGenerator' = characters[i]
    /\ isOutfitGeneratorOpen' = TRUE
    /\ UNCHANGED <<offPageVars, mode, prompt, uploadedImageData, imagePreview, isLoading, isUpscaling,
                   error, result, galleryImages, characters, selectedCharacterId,
                   imageFaithfulness, aspectRatio, mainFlights, fileReads,
                   gallerySelects, nextUuid, outfitPrompt, generatedOutfit,
                   outfitIsLoading, outfitError, outfitFlights, outfitSelects,
                   creatorVars>>
    /\ saveEffects

\* if (!isOpen || !character) return null
OutfitModalShown == isOutfitGeneratorOpen /\ characterForOutfitGenerator # NoCharacter

\* <textarea value={prompt} onChange={e => setPrompt(e.target.value)} />
setOutfitPrompt(p) ==
    /\ OutfitModalShown
    /\ outfitPrompt' = p
    /\ UNCHANGED <<offPageVars, mode, prompt, uploadedImageData, imagePreview, isLoading, isUpscaling,
                   error, result, galleryImages, characters, selectedCharacterId,
                   imageFaithfulness, aspectRatio, mainFlights, fileReads,
                   gallerySelects, nextUuid, isOutfitGeneratorOpen,
                   characterForOutfitGenerator, generatedOutfit, outfitIsLoading,
                   outfitError, outfitFlights, outfitSelects, creatorVars>>
    /\ saveEffects

\* OutfitGeneratorModal.handleGenerate up to its await
handleGenerate ==
    IF characterForOutfitGenerator = NoCharacter \/ outfitPrompt = ""
    THEN /\ outfitError' = "Please select a character and enter a prompt."
         /\ UNCHANGED <<offPageVars, mode, prompt, uploadedImageData, imagePreview, isLoading,
                        isUpscaling, error, result, galleryImages, characters,
                        selectedCharacterId, imageFaithfulness, aspectRatio,
                        mainFlights, fileReads, gallerySelects, nextUuid,
                        isOutfitGeneratorOpen, characterForOutfitGenerator,
                        outfitPrompt, generatedOutfit, outfitIsLoading, outfitFlights,
                        outfitSelects, creatorVars>>
         /\ saveEffects
    ELSE /\ GalleryHasRoom
         /\ outfitIsLoading' = TRUE
         /\ outfitError' = Null
         /\ generatedOutfit' = NoResult
         /\ outfitFlights' = outfitFlights + 1
         /\ UNCHANGED <<offPageVars, mode, prompt, uploadedImageData, imagePreview, isLoading,
                        isUpscaling, error, result, galleryImages, characters,
                        selectedCharacterId, imageFaithfulness, aspectRatio,
                        mainFlights, fileReads, gallerySelects, nextUuid,
                        isOutfitGeneratorOpen, characterForOutfitGenerator,
                        outfitPrompt, outfitSelects, creatorVars>>
         /\ saveEffects

\* <button onClick={handleGenerate} disabled={isLoading || !prompt}>
ClickGenerateOutfit ==
    /\ OutfitModalShown
    /\ ~outfitIsLoading
    /\ outfitPrompt # ""
    /\ handleGenerate

\* A faulty handleOutfitGenerated that puts the outfit at the end of the gallery.
handleOutfitGeneratedAtEnd(outfitResult) ==
    /\ galleryImages' = Append(galleryImages, GalleryItem(outfitResult, nextUuid))
    /\ nextUuid' = nextUuid + 1

\* A faulty handleOutfitGenerated that writes over the newest entry.
handleOutfitGeneratedOverNewest(outfitResult) ==
    /\ galleryImages' = <<GalleryItem(outfitResult, nextUuid)>>
                          \o SubSeq(galleryImages, 2, Len(galleryImages))
    /\ nextUuid' = nextUuid + 1

\* App.handleOutfitGenerated: setGalleryImages(prev => [{ ...outfitResult, id: uuidv4() }, ...prev])
handleOutfitGenerated(outfitResult) ==
    /\ galleryImages' = <<GalleryItem(outfitResult, nextUuid)>> \o galleryImages
    /\ nextUuid' = nextUuid + 1

\* generateOutfitForCharacter resolved: setGeneratedOutfit(result); onOutfitGenerated(result); finally setIsLoading(false)
OutfitResolves(img) ==
    /\ outfitFlights > 0
    /\ generatedOutfit' = EditResult(img)
    /\ handleOutfitGenerated(EditResult(img))
    /\ outfitIsLoading' = FALSE
    /\ outfitFlights' = outfitFlights - 1
    /\ UNCHANGED <<offPageVars, mode, prompt, uploadedImageData, imagePreview, isLoading, isUpscaling,
                   error, result, characters, selectedCharacterId, imageFaithfulness,
                   aspectRatio, mainFlights, fileReads, gallerySelects,
                   isOutfitGeneratorOpen, characterForOutfitGenerator, outfitPrompt,
                   outfitError, outfitSelects, creatorVars>>
    /\ saveEffects

\* generateOutfitForCharacter threw: setError(err.message); finally setIsLoading(false)
OutfitRejects ==
    /\ outfitFlights > 0
    /\ outfitError' = GatewayError("outfit")
    /\ outfitIsLoading' = FALSE
    /\ outfitFlights' = outfitFlights - 1
    /\ UNCHANGED <<offPageVars, mode, prompt, uploadedImageData, imagePreview, isLoading, isUpscaling,
                   error, result, galleryImages, characters, selectedCharacterId,
                   imageFaithfulness, aspectRatio, mainFlights, fileReads,
                   gallerySelects, nextUuid, isOutfitGeneratorOpen,
                   characterForOutfitGenerator, outfitPrompt, generatedOutfit,
                   outfitSelects, creatorVars>>
    /\ saveEffects

\* OutfitGeneratorModal.handleClose: the modal's state is reset, then onClose()
OutfitModalReset ==
    /\ outfitPrompt' = ""
    /\ generatedOutfit' = NoResult
    /\ outfitError' = Null
    /\ outfitIsLoading' = FALSE
    /\ isOutfitGeneratorOpen' = FALSE

\* the backdrop and the Close button: onClick={handleClose}
outfitHandleClose ==
    /\ OutfitModalShown
    /\ OutfitModalReset
    /\ UNCHANGED <<offPageVars, mode, prompt, uploadedImageData, imagePreview, isLoading, isUpscaling,
                   error, result, galleryImages, characters, selectedCharacterId,
                   imageFaithfulness, aspectRatio, mainFlights, fileReads,
                   gallerySelects, nextUuid, characterForOutfitGenerator,
                   outfitFlights, outfitSelects, creatorVars>>
    /\ saveEffects

\* "Use this Image", rendered when generatedOutfit && !isLoading:
\* onImageSelect(generatedOutfit.editedImageBase64) starts App.handleOutfitImageSelect's
\* fetch, then handleClose()
handleSelect ==
    /\ OutfitModalShown
    /\ generatedOutfit # NoResult
    /\ ~outfitIsLoading
    /\ PendingHasRoom
    /\ outfitSelects' = Append(outfitSelects, generatedOutfit.editedImageBase64)
    /\ OutfitModalReset
    /\ UNCHANGED <<offPageVars, mode, prompt, uploadedImageData, imagePreview, isLoading, isUpscaling,
                   error, result, galleryImages, characters, selectedCharacterId,
                   imageFaithfulness, aspectRatio, mainFlights, fileReads,
                   gallerySelects, nextUuid, characterForOutfitGenerator,
                   outfitFlights, creatorVars>>
    /\ saveEffects

\* App.handleOutfitImageSelect: .then(blob => { handleImageUpload(file);
\* setResult({editedImageBase64: imageBase64, editedText: null}); setMode('edit');
\* setIsOutfitGeneratorOpen(false); })
OutfitSelectContinues(i) ==
    /\ i \in DOMAIN outfitSelects
    /\ BeginUpload(PngFile(outfitSelects[i]))
    /\ result' = EditResult(outfitSelects[i])
    /\ mode' = "edit"
    /\ isOutfitGeneratorOpen' = FALSE
    /\ outfitSelects' = RemoveAt(outfitSelects, i)
    /\ UNCHANGED <<offPageVars, prompt, isLoading, isUpscaling, galleryImages, characters,
                   selectedCharacterId, imageFaithfulness, aspectRatio, mainFlights,
                   gallerySelects, nextUuid, characterForOutfitGenerator, outfitPrompt,
                   generatedOutfit, outfitIsLoading, outfitError, outfitFlights,
                   creatorVars>>
    /\ saveEffects

(***************************************************************************)
(* The character store: App handlers and CharacterCreatorModal.handleSave  *)
(***************************************************************************)
\* onCreateCharacter={() => handleOpenCharCreator(null)}, button disabled={disabled}
\* onEditCharacter={(char) => handleOpenCharCreator(char)}, if (!disabled)
handleOpenCharCreator(character) ==
    /\ ~isLoading
    /\ characterToEdit' = character
    /\ isCharCreatorOpen' = TRUE
    /\ UNCHANGED <<offPageVars, mode, prompt, uploadedImageData, imagePreview, isLoading, isUpscaling,
                   error, result, galleryImages, characters, selectedCharacterId,
                   imageFaithfulness, aspectRatio, mainFlights, fileReads,
                   gallerySelects, nextUuid, outfitVars>>
    /\ saveEffects

\* CharacterCreatorModal.resetState, as far as the form is modelled:
\* setReferenceImages([]); setError(null)
resetState ==
    /\ referenceImages' = <<>>
    /\ creatorError' = Null

\* CharacterCreatorModal.handleClose -> onClose={() => { setIsCharCreatorOpen(false); setCharacterToEdit(null); }}
creatorHandleClose ==
    /\ isCharCreatorOpen
    /\ isCharCreatorOpen' = FALSE
    /\ characterToEdit' = NoCharacter
    /\ resetState
    /\ UNCHANGED <<gatewayVars, lifecycleVars, asideVars, refReads, mode, prompt, uploadedImageData, imagePreview, isLoading, isUpscaling,
                   error, result, galleryImages, characters, selectedCharacterId,
                   imageFaithfulness, aspectRatio, mainFlights, fileReads,
                   gallerySelects, nextUuid, outfitVars>>
    /\ saveEffects

\* prev.findIndex(c => c.id === character.id): the first match, 0 if none
FindById(list, id) ==
    IF \E i \in DOMAIN list : list[i].id = id
    THEN CHOOSE i \in DOMAIN list :
            /\ list[i].id = id
            /\ \A j \in 1..(i - 1) : list[j].id # id
    ELSE 0

\* A faulty handleSaveCharacter that moves the saved character to the front.
handleSaveCharacterAtFront(character) ==
    /\ characters' = <<character>> \o SelectSeq(characters, LAMBDA c : c.id # character.id)
    /\ isCharCreatorOpen' = FALSE
    /\ characterToEdit' = NoCharacter

\* A faulty handleSaveCharacter that appends without looking for the id.
handleSaveCharacterAppending(character) ==
    /\ characters' = Append(characters, character)
    /\ isCharCreatorOpen' = FALSE
    /\ characterToEdit' = NoCharacter

\* App.handleSaveCharacter: replace at the index of the id, else append; close the modal
handleSaveCharacter(character) ==
    /\ characters' =
         LET existingIndex == FindById(characters, character.id)
         IN  IF existingIndex > 0
             THEN [characters EXCEPT ![existingIndex] = character]
             ELSE Append(characters, character)
    /\ isCharCreatorOpen' = FALSE
    /\ characterToEdit' = NoCharacter

\* CharacterCreatorModal.handleSave with a complete form (the Save button is disabled
\* otherwise): id: existingCharacter?.id || uuidv4(), then onSaveCharacter, then handleClose
handleSave(name, description, portrait) ==
    /\ isCharCreatorOpen
    /\ resetState
    /\ LET minted == characterToEdit = NoCharacter
           characterData == [id |-> IF minted THEN nextUuid ELSE characterToEdit.id,
                             name |-> name,
                             description |-> description,
                             referenceImageBase64 |-> portrait]
       IN  /\ minted => nextUuid <= MaxUuid
           /\ handleSaveCharacter(characterData)
           /\ nextUuid' = IF minted THEN nextUuid + 1 ELSE nextUuid
    /\ UNCHANGED <<gatewayVars, lifecycleVars, asideVars, refReads, mode, prompt, uploadedImageData, imagePreview, isLoading, isUpscaling,
                   error, result, galleryImages, selectedCharacterId,
                   imageFaithfulness, aspectRatio, mainFlights, fileReads,
                   gallerySelects, outfitVars>>
    /\ saveEffects

\* A faulty handleDeleteCharacter that leaves the selection alone.
handleDeleteCharacterKeepingSelection(id, confirmed) ==
    /\ ~isLoading
    /\ \E i \in DOMAIN characters : characters[i].id = id
    /\ characters' = IF confirmed THEN SelectSeq(characters, LAMBDA c : c.id # id)
                     ELSE characters
    /\ UNCHANGED <<offPageVars, mode, prompt, uploadedImageData, imagePreview, isLoading, isUpscaling,
                   error, result, galleryImages, selectedCharacterId, imageFaithfulness,
                   aspectRatio, mainFlights, fileReads, gallerySelects, nextUuid,
                   outfitVars, creatorVars>>
    /\ saveEffects

\* App.handleDeleteCharacter, reached by if (!disabled) onDeleteCharacter(char.id);
\* confirmed is the answer to window.confirm
handleDeleteCharacter(id, confirmed) ==
    /\ ~isLoading
    /\ \E i \in DOMAIN characters : characters[i].id = id
    /\ IF confirmed
       THEN /\ characters' = SelectSeq(characters, LAMBDA c : c.id # id)
            /\ selectedCharacterId' = IF selectedCharacterId = id THEN NoId ELSE selectedCharacterId
       ELSE UNCHANGED <<characters, selectedCharacterId>>
    /\ UNCHANGED <<offPageVars, mode, prompt, uploadedImageData, imagePreview, isLoading, isUpscaling,
                   error, result, galleryImages, imageFaithfulness, aspectRatio,
                   mainFlights, fileReads, gallerySelects, nextUuid, outfitVars,
                   creatorVars>>
    /\ saveEffects

(***************************************************************************)
(* The session specification: the events of the rendered main page.        *)
(***************************************************************************)
Next ==
    \/ \E p \in Prompts : setPrompt(p)
    \/ \E r \in AspectRatios : setAspectRatio(r)
    \/ \E v \in FaithfulnessValues : setImageFaithfulness(v)
    \/ \E i \in DOMAIN characters : onSelectCharacter(i)
    \/ \E m \in Modes : handleModeChange(m)
    \/ \E f \in UserFiles : handleImageUpload(f)
    \/ \E i \in DOMAIN fileReads : FileReadResolves(i)
    \/ \E i \in DOMAIN fileReads : FileReadRejects(i)
    \/ ClickGenerate
    \/ \E i \in DOMAIN mainFlights, img \in Images : SubmitResolves(i, img)
    \/ \E i \in DOMAIN mainFlights : SubmitRejects(i)
    \/ ClickUpscale
    \/ \E i \in DOMAIN mainFlights, img \in Images : UpscaleResolves(i, img)
    \/ \E i \in DOMAIN mainFlights : UpscaleRejects(i)
    \/ \E k \in DOMAIN galleryImages : handleGallerySelect(k)
    \/ \E i \in DOMAIN gallerySelects : GallerySelectContinues(i)

Spec == Init /\ [][Next]_vars

(***************************************************************************)
(* The gallery specification: every operation that writes the gallery      *)
(* (submit, upscale, outfit generation) with the re-imports that make a    *)
(* gallery or outfit image the current result.  The events of the main     *)
(* page stay enabled while the outfit modal is open: its backdrop covers    *)
(* the page but no handler checks it, and a request started before the     *)
(* modal was opened or closed completes regardless.                        *)
(***************************************************************************)
NextGallery ==
    \/ \E p \in Prompts : setPrompt(p)
    \/ ClickGenerate
    \/ \E i \in DOMAIN mainFlights, img \in Images : SubmitResolves(i, img)
    \/ \E i \in DOMAIN mainFlights : SubmitRejects(i)
    \/ ClickUpscale
    \/ \E i \in DOMAIN mainFlights, img \in Images : UpscaleResolves(i, img)
    \/ \E i \in DOMAIN mainFlights : UpscaleRejects(i)
    \/ \E k \in DOMAIN galleryImages : handleGallerySelect(k)
    \/ \E i \in DOMAIN gallerySelects : GallerySelectContinues(i)
    \/ \E i \in DOMAIN fileReads : FileReadResolves(i)
    \/ \E i \in DOMAIN fileReads : FileReadRejects(i)
    \/ \E i \in DOMAIN characters : handleOpenOutfitGenerator(i)
    \/ \E p \in Prompts : setOutfitPrompt(p)
    \/ ClickGenerateOutfit
    \/ \E img \in Images : OutfitResolves(img)
    \/ OutfitRejects
    \/ outfitHandleClose
    \/ handleSelect
    \/ \E i \in DOMAIN outfitSelects : OutfitSelectContinues(i)

SpecGallery == Init /\ [][NextGallery]_vars

(***************************************************************************)
(* The character specification: the character store and the selection.     *)
(***************************************************************************)
NextCharacters ==
    \/ handleOpenCharCreator(NoCharacter)
    \/ \E i \in DOMAIN characters : handleOpenCharCreator(characters[i])
    \/ creatorHandleClose
    \/ \E n \in Names, d \in Descriptions, img \in Portraits : handleSave(n, d, img)
    \/ \E i \in DOMAIN characters, confirmed \in BOOLEAN :
          handleDeleteCharacter(characters[i].id, confirmed)
    \/ \E i \in DOMAIN characters : onSelectCharacter(i)
    \/ \E p \in Prompts : setPrompt(p)
    \/ ClickGenerate
    \/ \E i \in DOMAIN mainFlights : SubmitRejects(i)

SpecCharacters == Init /\ [][NextCharacters]_vars

(***************************************************************************)
(* The handler specification: handleSubmit invoked directly, whatever the   *)
(* state of the Generate button, with the events that set what it reads.   *)
(***************************************************************************)
NextDirect ==
    \/ \E p \in Prompts : setPrompt(p)
    \/ \E m \in Modes : handleModeChange(m)
    \/ \E f \in UserFiles : handleImageUpload(f)
    \/ \E i \in DOMAIN fileReads : FileReadResolves(i)
    \/ \E i \in DOMAIN fileReads : FileReadRejects(i)
    \/ handleSubmit
    \/ \E i \in DOMAIN mainFlights, img \in Images : SubmitResolves(i, img)
    \/ \E i \in DOMAIN mainFlights : SubmitRejects(i)

SpecDirect == Init /\ [][NextDirect]_vars

(***************************************************************************)
(* The earlier App (src/App.tsx lines 18-210): handleSubmit reads the      *)
(* uploaded file with a FileReader and calls editImage from the reader's   *)
(* onloadend callback.  The callback is an async function of its own: the  *)
(* try/catch of handleSubmit has returned by the time it runs.  It is      *)
(* modelled on the same state, uploadedImageData standing for uploadedFile *)
(* and mainFlights holding the pending read or gateway call.               *)
(***************************************************************************)
\* const isSubmitDisabled = isLoading || !prompt || (mode === 'edit' && !imagePreview)
Earlier_isSubmitDisabled ==
    isLoading \/ prompt = "" \/ (mode = "edit" /\ imagePreview = NoFile)

\* <button onClick={() => setMode(...)}>
Earlier_setMode(newMode) ==
    /\ mode' = newMode
    /\ UNCHANGED <<offPageVars, lsCharacters, lsGallery, prompt, uploadedImageData, imagePreview, isLoading, isUpscaling, error,
                   result, galleryImages, characters, selectedCharacterId,
                   imageFaithfulness, aspectRatio, mainFlights, fileReads,
                   gallerySelects, nextUuid, outfitVars, creatorVars>>

\* setUploadedFile(file); setImagePreview(previewUrl); ...; setMode('edit')
Earlier_SetUpload(file) ==
    /\ uploadedImageData' = file
    /\ imagePreview' = file
    /\ mode' = "edit"

\* handleImageUpload(file) from the ImageUploader (keepResult = false), rendered in edit mode
Earlier_handleImageUpload(file) ==
    /\ mode = "edit"
    /\ Earlier_SetUpload(file)
    /\ result' = NoResult
    /\ UNCHANGED <<offPageVars, lsCharacters, lsGallery, prompt, isLoading, isUpscaling, error, galleryImages, characters,
                   selectedCharacterId, imageFaithfulness, aspectRatio, mainFlights,
                   fileReads, gallerySelects, nextUuid, outfitVars, creatorVars>>

\* handleSubmit up to the end of its synchronous part: in edit mode with a file the
\* reader is started ("earlier-read"), otherwise generateImage is awaited.
Earlier_handleSubmit ==
    /\ GalleryHasRoom
    /\ error' = Null
    /\ isLoading' = TRUE
    /\ result' = NoResult
    /\ mainFlights' = Append(mainFlights,
                             Closure(IF mode = "edit" /\ uploadedImageData # NoFile
                                     THEN "earlier-read" ELSE "earlier-generate"))
    /\ UNCHANGED <<offPageVars, lsCharacters, lsGallery, mode, prompt, uploadedImageData, imagePreview, isUpscaling,
                   galleryImages, characters, selectedCharacterId, imageFaithfulness,
                   aspectRatio, fileReads, gallerySelects, nextUuid, outfitVars,
                   creatorVars>>

\* <button onClick={handleSubmit} disabled={isSubmitDisabled}>
Earlier_ClickGenerate ==
    /\ ~Earlier_isSubmitDisabled
    /\ Earlier_handleSubmit

\* handleResult: publish, prepend to the gallery, make the result the next input,
\* clear the prompt, leave the loading state
Earlier_handleResult(img) ==
    /\ result' = EditResult(img)
    /\ galleryImages' = <<GalleryItem(EditResult(img), nextUuid)>> \o galleryImages
    /\ nextUuid' = nextUuid + 1
    /\ Earlier_SetUpload(PngFile(img))
    /\ prompt' = ""
    /\ isLoading' = FALSE

\* reader.onloadend with a result: editImage is called from the callback
Earlier_ReaderLoads(i) ==
    /\ i \in DOMAIN mainFlights
    /\ mainFlights[i].kind = "earlier-read"
    /\ mainFlights' = [mainFlights EXCEPT ![i].kind = "earlier-edit"]
    /\ UNCHANGED <<offPageVars, lsCharacters, lsGallery, mode, prompt, uploadedImageData, imagePreview, isLoading, isUpscaling,
                   error, result, galleryImages, characters, selectedCharacterId,
                   imageFaithfulness, aspectRatio, fileReads, gallerySelects, nextUuid,
                   outfitVars, creatorVars>>

\* The callback's promise rejects: reader.onloadend after a failed read (reader.result
\* is null, .split throws), or editImage throws.  No handler is attached to the
\* callback's promise, so no state is set.
Earlier_CallbackRejects(i) ==
    /\ i \in DOMAIN mainFlights
    /\ mainFlights[i].kind \in {"earlier-read", "earlier-edit"}
    /\ mainFlights' = RemoveAt(mainFlights, i)
    /\ UNCHANGED <<offPageVars, lsCharacters, lsGallery, mode, prompt, uploadedImageData, imagePreview, isLoading, isUpscaling,
                   error, result, galleryImages, characters, selectedCharacterId,
                   imageFaithfulness, aspectRatio, fileReads, gallerySelects, nextUuid,
                   outfitVars, creatorVars>>

\* editImage resolved inside the callback: handleResult(apiResult)
Earlier_EditResolves(i, img) ==
    /\ i \in DOMAIN mainFlights
    /\ mainFlights[i].kind = "earlier-edit"
    /\ Earlier_handleResult(img)
    /\ mainFlights' = RemoveAt(mainFlights, i)
    /\ UNCHANGED <<offPageVars, lsCharacters, lsGallery, isUpscaling, error, characters, selectedCharacterId,
                   imageFaithfulness, aspectRatio, fileReads, gallerySelects,
                   outfitVars, creatorVars>>

\* generateImage resolved: handleResult(apiResult)
Earlier_GenerateResolves(i, img) ==
    /\ i \in DOMAIN mainFlights
    /\ mainFlights[i].kind = "earlier-generate"
    /\ Earlier_handleResult(img)
    /\ mainFlights' = RemoveAt(mainFlights, i)
    /\ UNCHANGED <<offPageVars, lsCharacters, lsGallery, isUpscaling, error, characters, selectedCharacterId,
                   imageFaithfulness, aspectRatio, fileReads, gallerySelects,
                   outfitVars, creatorVars>>

\* generateImage threw: catch (err) { setError(...); setIsLoading(false); }
Earlier_GenerateRejects(i) ==
    /\ i \in DOMAIN mainFlights
    /\ mainFlights[i].kind = "earlier-generate"
    /\ error' = GatewayError("generate")
    /\ isLoading' = FALSE
    /\ mainFlights' = RemoveAt(mainFlights, i)
    /\ UNCHANGED <<offPageVars, lsCharacters, lsGallery, mode, prompt, uploadedImageData, imagePreview, isUpscaling, result,
                   galleryImages, characters, selectedCharacterId, imageFaithfulness,
                   aspectRatio, fileReads, gallerySelects, nextUuid, outfitVars,
                   creatorVars>>

\* Whatever is pending settles: the reader fires onloadend, the gateway call returns.
Earlier_Settle ==
    \/ \E i \in DOMAIN mainFlights : Earlier_ReaderLoads(i)
    \/ \E i \in DOMAIN mainFlights : Earlier_CallbackRejects(i)
    \/ \E i \in DOMAIN mainFlights, img \in Images : Earlier_EditResolves(i, img)
    \/ \E i \in DOMAIN mainFlights, img \in Images : Earlier_GenerateResolves(i, img)
    \/ \E i \in DOMAIN mainFlights : Earlier_GenerateRejects(i)

NextEarlier ==
    \/ \E p \in Prompts : setPrompt(p)
    \/ \E m \in Modes : Earlier_setMode(m)
    \/ \E f \in UserFiles : Earlier_handleImageUpload(f)
    \/ Earlier_ClickGenerate
    \/ Earlier_Settle

\* Fairness: a started read ends and a started gateway call returns or throws.
SpecEarlier == Init /\ [][NextEarlier]_vars /\ WF_vars(Earlier_Settle)

(***************************************************************************)
(* The gateway (services/geminiService.ts).  A call runs up to its one     *)
(* await of the provider; the continuation runs when the provider answers  *)
(* or throws.                                                              *)
(***************************************************************************)
\* character?.referenceImageBase64 is truthy
hasReference(character) == character # NoCharacter /\ character.referenceImageBase64 # ""

\* for (const part of ...parts) { if (part.inlineData) ... else if (part.text) ... }
RECURSIVE extractParts(_, _)
extractParts(parts, acc) ==
    IF parts = <<>> THEN acc
    ELSE LET part == Head(parts)
             next == IF part.kind = "inlineData"
                     THEN [acc EXCEPT !.editedImageBase64 = part.data]
                     ELSE IF part.text # ""
                     THEN [acc EXCEPT !.editedText = part.text]
                     ELSE acc
         IN  extractParts(Tail(parts), next)

\* The branch of the operation that asks the Imagen model (generateImages).
usesImagen(op, args) ==
    \/ op = "generateImage" /\ ~hasReference(args.character)
    \/ op = "generateCharacterImage" /\ args.referenceImages = <<>>

\* The message thrown inside the try when the response holds no image.
NoImageMessage(op, args) ==
    CASE op = "editImage" ->
            <<"API did not return an image. This could be due to a ", "safety", " block.">>
      [] op = "generateImage" /\ hasReference(args.character) ->
            <<"API did not return an image for character generation.">>
      [] op = "generateImage" ->
            <<"API did not return any images.">>
      [] op = "upscaleImage" ->
            <<"API did not return an image after upscaling. This might be a ", "safety", " block.">>
      [] op = "generateCharacterImage" /\ args.referenceImages = <<>> ->
            <<"API did not return any images for character portrait generation.">>
      [] op = "generateCharacterImage" ->
            <<"API did not return an image for the character portrait. This could be due to a ",
              "safety", " block.">>
      [] OTHER ->
            <<"API did not return an image for the outfit generation.">>

\* A faulty imageParts that pushes the target first.
imagePartsTargetFirst(args) ==
    <<ImagePart(args.imageBase64)>>
    \o (IF hasReference(args.character)
        THEN <<ImagePart(args.character.referenceImageBase64)>> ELSE <<>>)
    \o (IF args.additionalImage # NoFile THEN <<ImagePart(args.additionalImage.base64)>> ELSE <<>>)

\* editImage: imageParts, in the order they are pushed
imageParts(args) ==
    (IF hasReference(args.character)
     THEN <<ImagePart(args.character.referenceImageBase64)>> ELSE <<>>)
    \o (IF args.additionalImage # NoFile THEN <<ImagePart(args.additionalImage.base64)>> ELSE <<>>)
    \o <<ImagePart(args.imageBase64)>>

\* editImage: imageRoles, numbered by imageCounter++
imageRoles(args) ==
    LET afterReference == IF hasReference(args.character) THEN 2 ELSE 1
        afterAdditional == IF args.additionalImage # NoFile
                           THEN afterReference + 1 ELSE afterReference
    IN  (IF hasReference(args.character) THEN <<ImageRole(1, "REFERENCE")>> ELSE <<>>)
        \o (IF args.additionalImage # NoFile
            THEN <<ImageRole(afterReference, "ELEMENT")>> ELSE <<>>)
        \o <<ImageRole(afterAdditional, "TARGET")>>

\* editImage: textParts, the instruction and then the user's prompt
textParts(args) ==
    << InstructionPart(imageRoles(args),
                       IF args.character # NoCharacter
                       THEN getFaithfulnessInstruction(args.faithfulness) ELSE ""),
       TextPart(args.prompt) >>

\* contents.parts (or the prompt) of the request each operation sends
requestParts(op, args) ==
    CASE op = "editImage" -> imageParts(args) \o textParts(args)
      [] op = "generateImage" /\ hasReference(args.character) ->
            << ImagePart(args.character.referenceImageBase64),
               InstructionPart(<<>>, getFaithfulnessInstruction(args.faithfulness)),
               TextPart(args.prompt) >>
      [] op = "generateImage" -> <<TextPart(args.prompt)>>
      [] op = "upscaleImage" -> <<ImagePart(args.imageBase64), TextPart("upscale")>>
      [] op = "generateCharacterImage" /\ args.referenceImages = <<>> ->
            <<TextPart(args.prompt)>>
      [] op = "generateCharacterImage" ->
            [i \in DOMAIN args.referenceImages |-> ImagePart(args.referenceImages[i])]
            \o <<InstructionPart(<<>>, ""), TextPart(args.prompt)>>
      [] OTHER ->
            << ImagePart(args.character.referenceImageBase64),
               InstructionPart(<<>>, getFaithfulnessInstruction(args.faithfulness)),
               TextPart(args.prompt) >>

\* The arguments the session may pass to each operation.
editImageArgs ==
    {[NoArgs EXCEPT !.prompt = "p", !.imageBase64 = "c", !.character = c,
                    !.faithfulness = f, !.additionalImage = add] :
        c \in GwCharacters, f \in FaithfulnessValues, add \in {NoFile, PngFile("b")}}
generateImageArgs ==
    {[NoArgs EXCEPT !.prompt = "p", !.character = c, !.faithfulness = f] :
        c \in GwCharacters, f \in FaithfulnessValues}
upscaleImageArgs == {[NoArgs EXCEPT !.imageBase64 = "a"]}
generateCharacterImageArgs ==
    {[NoArgs EXCEPT !.prompt = "d1", !.referenceImages = refs] :
        refs \in {<<>>, <<"a">>, <<"a", "b">>}}
generateOutfitForCharacterArgs ==
    {[NoArgs EXCEPT !.prompt = "p", !.character = c, !.faithfulness = f] :
        c \in {StoredCharacter, BareCharacter}, f \in FaithfulnessValues}

\* No call is awaiting the provider.
gatewayFree == gwPhase # "awaiting"

\* The call reaches its await: one request is sent.
SendRequest(op, args) ==
    /\ gatewayFree
    /\ gwOp' = op
    /\ gwArgs' = args
    /\ gwRequest' = requestParts(op, args)
    /\ gwRequests' = 1
    /\ gwPhase' = "awaiting"
    /\ gwReturn' = NoReturn
    /\ gwError' = <<>>
    /\ gwCaught' = <<>>
    /\ gwResponse' = <<>>
    /\ UNCHANGED nonGatewayVars

editImage(args) == SendRequest("editImage", args)

generateImage(args) == SendRequest("generateImage", args)

upscaleImage(args) == SendRequest("upscaleImage", args)

generateCharacterImage(args) == SendRequest("generateCharacterImage", args)

\* generateOutfitForCharacter: the check of the reference image stands before the try
generateOutfitForCharacter(args) ==
    IF args.character.referenceImageBase64 = ""
    THEN /\ gatewayFree
         /\ gwOp' = "generateOutfitForCharacter"
         /\ gwArgs' = args
         /\ gwRequest' = <<>>
         /\ gwRequests' = 0
         /\ gwPhase' = "thrown"
         /\ gwReturn' = NoReturn
         /\ gwError' = <<"Character must have a reference image to generate outfits.">>
         /\ gwCaught' = <<>>
         /\ gwResponse' = <<>>
         /\ UNCHANGED nonGatewayVars
    ELSE SendRequest("generateOutfitForCharacter", args)

\* The call ends by returning a result.
Returns(res) ==
    /\ gwPhase' = "returned"
    /\ gwReturn' = res
    /\ gwError' = <<>>
    /\ gwCaught' = <<>>
    /\ UNCHANGED <<nonGatewayVars, gwOp, gwArgs, gwRequest, gwRequests>>

\* The call ends in the catch: handleApiError throws.
Catches(errorMessage) ==
    /\ gwPhase' = "thrown"
    /\ gwReturn' = NoReturn
    /\ gwError' = handleApiError(errorMessage, Context(gwOp))
    /\ gwCaught' = errorMessage
    /\ UNCHANGED <<nonGatewayVars, gwOp, gwArgs, gwRequest, gwRequests>>

\* ai.models.generateContent resolves with these parts.
ContentResponds(parts) ==
    /\ gwPhase = "awaiting"
    /\ ~usesImagen(gwOp, gwArgs)
    /\ gwResponse' = parts
    /\ LET res == extractParts(parts, NoReturn)
       IN  IF res.editedImageBase64 # ""
           THEN Returns(res)
           ELSE Catches(NoImageMessage(gwOp, gwArgs))

\* ai.models.generateImages resolves with these images.
ImagesRespond(generatedImages) ==
    /\ gwPhase = "awaiting"
    /\ usesImagen(gwOp, gwArgs)
    /\ gwResponse' = [i \in DOMAIN generatedImages |-> ImagePart(generatedImages[i])]
    /\ IF generatedImages = <<>>
       THEN Catches(NoImageMessage(gwOp, gwArgs))
       ELSE Returns([editedImageBase64 |-> generatedImages[1], editedText |-> ""])

\* A faulty continuation that sends the request once more before it gives up.
ProviderThrowsRetrying(errorMessage) ==
    /\ gwPhase = "awaiting"
    /\ IF gwRequests < 2
       THEN /\ gwRequests' = gwRequests + 1
            /\ UNCHANGED <<nonGatewayVars, gwOp, gwPhase, gwArgs, gwRequest, gwReturn, gwError,
                           gwCaught, gwResponse>>
       ELSE Catches(errorMessage) /\ gwResponse' = <<>>

\* The awaited provider call rejects with an Error of this message.
ProviderThrows(errorMessage) ==
    /\ gwPhase = "awaiting"
    /\ gwResponse' = <<>>
    /\ Catches(errorMessage)

NextGateway ==
    \/ \E args \in editImageArgs : editImage(args)
    \/ \E args \in generateImageArgs : generateImage(args)
    \/ \E args \in upscaleImageArgs : upscaleImage(args)
    \/ \E args \in generateCharacterImageArgs : generateCharacterImage(args)
    \/ \E args \in generateOutfitForCharacterArgs : generateOutfitForCharacter(args)
    \/ \E parts \in Responses : ContentResponds(parts)
    \/ \E generatedImages \in GeneratedImages : ImagesRespond(generatedImages)
    \/ \E errorMessage \in ProviderMessages : ProviderThrows(errorMessage)

SpecGateway == Init /\ [][NextGateway]_vars

\* Every position of the StrengthSlider (min 0, max 100, step 1).
SliderMin == 0
SliderMax == 100
SliderValues == SliderMin..SliderMax

\* Outfit generation at every position of the slider.
sliderOutfitArgs ==
    {[NoArgs EXCEPT !.prompt = "p", !.character = c, !.faithfulness = f] :
        c \in {StoredCharacter, BareCharacter}, f \in SliderValues}

NextFaithfulness ==
    \/ \E args \in sliderOutfitArgs : generateOutfitForCharacter(args)
    \/ \E parts \in Responses : ContentResponds(parts)

SpecFaithfulness == Init /\ [][NextFaithfulness]_vars

(***************************************************************************)
(* Startup: the load effect and the first run of the save effects          *)
(* (App.tsx 261-292), and what durable storage may hold before it.         *)
(***************************************************************************)
\* A gallery entry persisted by an earlier session.
StoredGalleryItem == GalleryItem(EditResult("a"), 0)

\* What the two keys may hold when the App starts.
StartupCharacters == {Missing, Corrupt, NotAList, stringify(<<>>), stringify(<<StoredCharacter>>)}
StartupGallery == {Missing, Corrupt, NotAList, stringify(<<>>), stringify(<<StoredGalleryItem>>)}

\* The state of the first render: every useState at its initial value.
InitStorage ==
    /\ mode = "generate"
    /\ prompt = ""
    /\ uploadedImageData = NoFile
    /\ imagePreview = NoFile
    /\ isLoading = FALSE
    /\ isUpscaling = FALSE
    /\ error = Null
    /\ result = NoResult
    /\ galleryImages = <<>>
    /\ characters = <<>>
    /\ selectedCharacterId = NoId
    /\ imageFaithfulness = 50
    /\ aspectRatio = "1:1"
    /\ mainFlights = <<>>
    /\ fileReads = <<>>
    /\ gallerySelects = <<>>
    /\ nextUuid = 1
    /\ isCharCreatorOpen = FALSE
    /\ characterToEdit = NoCharacter
    /\ isOutfitGeneratorOpen = FALSE
    /\ characterForOutfitGenerator = NoCharacter
    /\ outfitPrompt = ""
    /\ generatedOutfit = NoResult
    /\ outfitIsLoading = FALSE
    /\ outfitError = Null
    /\ outfitFlights = 0
    /\ outfitSelects = <<>>
    /\ gwOp = "none"
    /\ gwPhase = "idle"
    /\ gwArgs = NoArgs
    /\ gwRequest = <<>>
    /\ gwRequests = 0
    /\ gwReturn = NoReturn
    /\ gwError = <<>>
    /\ gwCaught = <<>>
    /\ gwResponse = <<>>
    /\ lsCharacters \in StartupCharacters
    /\ lsGallery \in StartupGallery
    /\ lsStartup = [characters |-> lsCharacters, gallery |-> lsGallery]
    /\ lsFallible \in BOOLEAN
    /\ appPhase = "unmounted"
    /\ rehydration = NoRehydration
    /\ referenceImages = <<>>
    /\ refReads = <<>>
    /\ creatorError = Null
    /\ vidPhase = "idle"
    /\ vidArgs = NoVideoArgs
    /\ vidJob = "none"
    /\ vidOperation = NoOperation
    /\ vidPolls = 0
    /\ vidWaited = 0
    /\ vidResult = NoVideo
    /\ tcFile = NoBinary
    /\ tcPhase = "idle"
    /\ tcEncoded = NoEncoded
    /\ tcDecoded = NoBinary

\* A faulty load that passes on whatever the text yields, unparsable text included.
loadedCharactersUncaught ==
    IF present(lsCharacters) THEN parse(lsCharacters) ELSE NoUpdate

\* The load effect: what it passes to setCharacters and setGalleryImages.  A throw
\* of the first JSON.parse leaves the try block before the gallery is read.
loadedCharacters ==
    IF present(lsCharacters) /\ ~parseThrows(lsCharacters) THEN parse(lsCharacters)
    ELSE NoUpdate
loadedGallery ==
    IF present(lsCharacters) /\ parseThrows(lsCharacters) THEN NoUpdate
    ELSE IF present(lsGallery) /\ ~parseThrows(lsGallery) THEN parse(lsGallery)
    ELSE NoUpdate

\* The effects of the first commit, in the order they are declared: the load
\* effect queues its state updates, then both save effects run with the lists
\* of the first render.
Mount ==
    /\ appPhase = "unmounted"
    /\ rehydration' = [characters |-> loadedCharacters, gallery |-> loadedGallery]
    /\ lsCharacters' \in setItem(lsCharacters, characters)
    /\ lsGallery' \in setItem(lsGallery, galleryImages)
    /\ appPhase' = IF loadedCharacters = NoUpdate /\ loadedGallery = NoUpdate
                   THEN "ready" ELSE "mounted"
    /\ UNCHANGED <<appVars, gatewayVars, creatorFormVars, asideVars, lsStartup, lsFallible>>

\* The render of the queued updates and the save effects of the lists it has
\* replaced.  A list that is null makes the render throw (characters.find,
\* images.length).
Rehydrate ==
    /\ appPhase = "mounted"
    /\ IF rehydration.characters.kind = "null" \/ rehydration.gallery.kind = "null"
       THEN /\ appPhase' = "crashed"
            /\ UNCHANGED <<characters, galleryImages, lsCharacters, lsGallery, rehydration>>
       ELSE /\ appPhase' = "ready"
            /\ rehydration' = NoRehydration
            /\ characters' = IF rehydration.characters.kind = "list"
                             THEN rehydration.characters.list ELSE characters
            /\ galleryImages' = IF rehydration.gallery.kind = "list"
                                THEN rehydration.gallery.list ELSE galleryImages
            /\ lsCharacters' \in IF rehydration.characters.kind = "list"
                                 THEN setItem(lsCharacters, characters') ELSE {lsCharacters}
            /\ lsGallery' \in IF rehydration.gallery.kind = "list"
                              THEN setItem(lsGallery, galleryImages') ELSE {lsGallery}
    /\ UNCHANGED <<mode, prompt, uploadedImageData, imagePreview, isLoading, isUpscaling,
                   error, result, selectedCharacterId, imageFaithfulness, aspectRatio,
                   mainFlights, fileReads, gallerySelects, nextUuid, outfitVars, creatorVars,
                   gatewayVars, creatorFormVars, asideVars, lsStartup, lsFallible>>

\* Startup and the mutations of the two lists.
NextStorage ==
    \/ Mount
    \/ Rehydrate
    \/ appPhase = "ready" /\ handleOpenCharCreator(NoCharacter)
    \/ appPhase = "ready" /\ \E d \in Descriptions, img \in Portraits : handleSave("n1", d, img)
    \/ appPhase = "ready" /\ \E i \in DOMAIN characters :
                                handleDeleteCharacter(characters[i].id, TRUE)
    \/ appPhase = "ready" /\ setPrompt("p")
    \/ appPhase = "ready" /\ ClickGenerate
    \/ appPhase = "ready" /\ \E i \in DOMAIN mainFlights : SubmitResolves(i, "b")

SpecStorage == InitStorage /\ [][NextStorage]_vars

(***************************************************************************)
(* Properties of the session.                                              *)
(***************************************************************************)

\* C1: a submit that fails leaves result exactly as it was before the submit:
\* the handler's catch branch ends with the result the handler was started with.
C1_FailedSubmitKeepsResult ==
    [][\A i \in DOMAIN mainFlights :
          SubmitRejects(i) => result' = mainFlights[i].result]_vars

\* C2: neither the start of a submit nor its failure changes the working image,
\* the prompt, the mode, the selected character, the aspect ratio, the characters
\* or the gallery; after the failure the prompt is still the submitted, non-empty one.
C2_FailedSubmitFrame ==
    [][(ClickGenerate \/ \E i \in DOMAIN mainFlights : SubmitRejects(i)) =>
          /\ UNCHANGED <<uploadedImageData, imagePreview, prompt, mode,
                         selectedCharacterId, aspectRatio, characters, galleryImages>>
          /\ prompt' # ""]_vars

\* A failed edit has settled: the error is shown, the loading flag is down, and the
\* image, prompt, selection and an earlier gallery entry are all still there.
C2_Witness ==
    /\ ~isLoading
    /\ error = GatewayError("edit")
    /\ mode = "edit"
    /\ prompt = "p"
    /\ uploadedImageData # NoFile
    /\ selectedCharacterId # NoId
    /\ aspectRatio = "16:9"
    /\ galleryImages # <<>>

\* C3: handleSubmit with an empty prompt, or in edit mode without a working image,
\* sets the validation message and does nothing else: no request is started, the
\* loading flag, the result, the working image, the prompt, the mode and the
\* gallery are unchanged.
C3_InvalidSubmitRejected ==
    [][(handleSubmit /\ (prompt = "" \/ (mode = "edit" /\ uploadedImageData = NoFile))) =>
          /\ error' = IF prompt = "" THEN ErrNoPrompt ELSE ErrNoImage
          /\ mainFlights' = mainFlights
          /\ isLoading' = isLoading
          /\ UNCHANGED <<result, uploadedImageData, imagePreview, prompt, mode,
                         galleryImages, nextUuid>>]_vars

\* An edit submitted without a working image has been rejected: the message is
\* shown, no request is in flight, and the result and gallery entry of another
\* submit are in place.
C3_Witness ==
    /\ error = ErrNoImage
    /\ mode = "edit"
    /\ prompt # ""
    /\ uploadedImageData = NoFile
    /\ result # NoResult
    /\ galleryImages # <<>>
    /\ ~isLoading
    /\ mainFlights = <<>>

\* C4: when an edit succeeds, the new result becomes the working image and the
\* prompt is cleared, while mode, selection and aspect ratio are kept.
C4_ChainedEditing ==
    [][\A i \in DOMAIN mainFlights, img \in Images :
          (SubmitResolves(i, img) /\ mainFlights[i].kind = "edit") =>
             /\ uploadedImageData'.base64 = img
             /\ prompt' = ""
             /\ UNCHANGED <<mode, selectedCharacterId, aspectRatio>>]_vars

\* C5: the gallery is newest first.  Every entry sits at the index its creation
\* order gives it (the N-th created at the front, the first created at the end);
\* a successful submit or outfit generation puts its result in front of the
\* unchanged earlier entries; and any other change of the gallery either puts one
\* new entry in front or keeps every id at its index.
C5_NewestFirst ==
    /\ [](/\ Len(galleryImages) = nextUuid - 1
          /\ \A k \in DOMAIN galleryImages :
                galleryImages[k].id = Len(galleryImages) - k + 1)
    /\ [][/\ \A i \in DOMAIN mainFlights, img \in Images :
                SubmitResolves(i, img) =>
                   galleryImages' = <<[id |-> nextUuid, editedImageBase64 |-> img]>>
                                      \o galleryImages
          /\ \A img \in Images :
                OutfitResolves(img) =>
                   galleryImages' = <<[id |-> nextUuid, editedImageBase64 |-> img]>>
                                      \o galleryImages
          /\ galleryImages' # galleryImages =>
                \/ /\ Len(galleryImages') = Len(galleryImages) + 1
                   /\ SubSeq(galleryImages', 2, Len(galleryImages')) = galleryImages
                \/ /\ Len(galleryImages') = Len(galleryImages)
                   /\ \A k \in DOMAIN galleryImages :
                         galleryImages'[k].id = galleryImages[k].id]_vars

\* A submit result was stored first and an outfit afterwards: the outfit is at the
\* front of the gallery and the older submit result behind it.
C5_Witness ==
    /\ Len(galleryImages) = 2
    /\ result # NoResult
    /\ generatedOutfit # NoResult
    /\ result.editedImageBase64 # generatedOutfit.editedImageBase64
    /\ galleryImages[1] = [id |-> 2, editedImageBase64 |-> generatedOutfit.editedImageBase64]
    /\ galleryImages[2] = [id |-> 1, editedImageBase64 |-> result.editedImageBase64]

C7_DeleteCascadesSelection ==
    /\ [](selectedCharacterId # NoId =>
             \E j \in DOMAIN characters : characters[j].id = selectedCharacterId)
    /\ [][\A i \in DOMAIN characters :
             handleDeleteCharacter(characters[i].id, TRUE) =>
                /\ \A j \in DOMAIN characters' : characters'[j].id # characters[i].id
                /\ selectedCharacterId = characters[i].id => selectedCharacterId' = NoId
                /\ selectedCharacterId # characters[i].id =>
                      selectedCharacterId' = selectedCharacterId]_vars

\* The persisted character has been deleted while another character stays selected.
C7_Witness ==
    /\ characters # <<>>
    /\ \A j \in DOMAIN characters : characters[j].id # StoredCharacter.id
    /\ selectedCharacterId # NoId

\* C8: handleModeChange sets the mode, clears the result and the error, and leaves
\* the selected character, the characters, the gallery, the prompt, the
\* faithfulness and the aspect ratio unchanged.
C8_ModeChangeFrame ==
    [][\A m \in Modes :
          handleModeChange(m) =>
             /\ mode' = m
             /\ result' = NoResult
             /\ error' = Null
             /\ UNCHANGED <<selectedCharacterId, characters, galleryImages, prompt,
                            imageFaithfulness, aspectRatio>>]_vars

\* Edit mode without an image, a result or an error is reached by a mode change
\* alone; the prompt, selection, faithfulness, aspect ratio and gallery set before
\* it are still there.
C8_Witness ==
    /\ mode = "edit"
    /\ result = NoResult
    /\ error = Null
    /\ uploadedImageData = NoFile
    /\ imagePreview = NoFile
    /\ fileReads = <<>>
    /\ prompt = "p"
    /\ selectedCharacterId # NoId
    /\ imageFaithfulness = 75
    /\ aspectRatio = "16:9"
    /\ galleryImages # <<>>

\* C9: leaving edit mode for generate mode releases the working image and its
\* preview.
C9_ModeSwitchReleasesImage ==
    [][(mode = "edit" /\ handleModeChange("generate")) =>
          /\ uploadedImageData' = NoFile
          /\ imagePreview' = NoFile]_vars

\* C10: at most one submit or upscale is in flight, and the loading flag is up
\* exactly while one is; so while it is up no further one can be started.
C10_SingleFlight ==
    /\ Len(mainFlights) <= 1
    /\ isLoading <=> mainFlights # <<>>

\* An upscale is in flight while everything else a submit needs is in place.
C10_Witness ==
    /\ isLoading
    /\ Len(mainFlights) = 1
    /\ mainFlights[1].kind = "upscale"
    /\ prompt # ""
    /\ mode = "edit"
    /\ uploadedImageData # NoFile

\* C11: every submit that enters the loading state eventually leaves it.
C11_EventuallySettles ==
    isLoading ~> ~isLoading

(***************************************************************************)
(* Properties of the gateway.                                              *)
(***************************************************************************)
\* The call has ended, by a return or by a throw.
gatewaySettled == gwPhase \in {"returned", "thrown"}

\* The call was refused before the try: an outfit for a character without a
\* reference image.
refusedBeforeRequest ==
    /\ gwOp = "generateOutfitForCharacter"
    /\ gwArgs.character.referenceImageBase64 = ""

\* C12 (as stated): every call that has ended has issued exactly one provider
\* request.
C12_ExactlyOneRequest == gatewaySettled => gwRequests = 1

\* C12 (amended): no call ever issues a second provider request, and the answer
\* to the one request ends the call, by a return or a throw, with the request
\* and the arguments as they were sent; a call that has ended has issued exactly
\* one request unless it was refused before the request (outfit generation for
\* a character without a reference image), in which case it has issued none.
C12_NoRetry ==
    /\ [](/\ gwRequests <= 1
          /\ (gwPhase = "awaiting" => gwRequests = 1)
          /\ (gatewaySettled => (gwRequests = 0 <=> refusedBeforeRequest)))
    /\ [][gwPhase = "awaiting" =>
            /\ gwPhase' \in {"returned", "thrown"}
            /\ gwRequests' = 1
            /\ gwRequest' = gwRequest
            /\ gwArgs' = gwArgs]_vars

\* A call whose one request was answered by a throw of the provider has failed.
C12_Witness ==
    /\ gwPhase = "thrown"
    /\ gwRequests = 1
    /\ gwError = GenericMessage(Context(gwOp))

\* The network/transport keywords of handleApiError, in lower case.
TransportKeywords == {"xhr error", "500", "network", "failed to fetch",
                      "requested entity was not found."}

\* The message holds a transport keyword, whatever its case.
mentionsTransport(message) == \E k \in TransportKeywords : includesLower(message, k)

\* C13: every failure the catch receives is classified by a case-insensitive
\* match on its message: a transport keyword surfaces the message verbatim;
\* otherwise "safety" gives the safety explanation; otherwise the generic
\* fallback is produced.
C13_CaseInsensitiveClassification ==
    (gwPhase = "thrown" /\ gwCaught # <<>>) =>
        gwError = IF mentionsTransport(gwCaught) THEN gwCaught
                  ELSE IF includesLower(gwCaught, "safety")
                  THEN SafetyMessage(Context(gwOp))
                  ELSE GenericMessage(Context(gwOp))

\* C14: when a failure is neither transport nor safety, the message the call
\* throws contains the text of the underlying error's message.
C14_UnknownIncludesUnderlying ==
    (/\ gwPhase = "thrown"
     /\ gwCaught # <<>>
     /\ gwError = GenericMessage(Context(gwOp)))
    => \A i \in DOMAIN gwCaught : includes(gwError, gwCaught[i])

\* The positions of the inline binary parts and of the text parts of a response.
inlineIndexes(parts) == {i \in DOMAIN parts : parts[i].kind = "inlineData"}
textIndexes(parts) == {i \in DOMAIN parts : parts[i].kind = "text" /\ parts[i].text # ""}
firstOf(indexes) == CHOOSE i \in indexes : \A j \in indexes : i <= j

\* C15: a returned result holds the FIRST inline binary part of the response as
\* its image and the FIRST text part as its text, and its image is not empty.
C15_FirstPartsExtracted ==
    gwPhase = "returned" =>
        /\ gwReturn.editedImageBase64 # ""
        /\ inlineIndexes(gwResponse) # {}
        /\ gwReturn.editedImageBase64 = gwResponse[firstOf(inlineIndexes(gwResponse))].data
        /\ gwReturn.editedText =
              IF textIndexes(gwResponse) = {} THEN ""
              ELSE gwResponse[firstOf(textIndexes(gwResponse))].text

\* The data of the image parts and the roles an editImage request must carry,
\* for each of the four combinations of optional images.
expectedImages(withReference, withAdditional, reference, additional, target) ==
    CASE withReference /\ withAdditional -> <<reference, additional, target>>
      [] withReference /\ ~withAdditional -> <<reference, target>>
      [] ~withReference /\ withAdditional -> <<additional, target>>
      [] OTHER -> <<target>>
expectedRoles(withReference, withAdditional) ==
    CASE withReference /\ withAdditional -> <<"REFERENCE", "ELEMENT", "TARGET">>
      [] withReference /\ ~withAdditional -> <<"REFERENCE", "TARGET">>
      [] ~withReference /\ withAdditional -> <<"ELEMENT", "TARGET">>
      [] OTHER -> <<"TARGET">>

\* C16: the request of editImage holds the image parts [character reference?,
\* additional?, target], then the instruction text, then the raw user prompt
\* as the last part; the instruction numbers the roles 1..k in the same order
\* and TARGET carries k, the number of image parts.
C16_ImageRoleOrdering ==
    (gwOp = "editImage" /\ gwPhase # "idle") =>
        LET withReference == gwArgs.character.referenceImageBase64 # ""
            withAdditional == gwArgs.additionalImage # NoFile
            images == expectedImages(withReference, withAdditional,
                                     gwArgs.character.referenceImageBase64,
                                     gwArgs.additionalImage.base64, gwArgs.imageBase64)
            roles == expectedRoles(withReference, withAdditional)
            k == Len(images)
        IN  /\ Len(gwRequest) = k + 2
            /\ \A i \in 1..k : /\ gwRequest[i].kind = "inlineData"
                               /\ gwRequest[i].data = images[i]
            /\ gwRequest[k + 1].kind = "text"
            /\ gwRequest[k + 1].text = "instruction"
            /\ Len(gwRequest[k + 1].roles) = k
            /\ \A i \in 1..k : /\ gwRequest[k + 1].roles[i].n = i
                               /\ gwRequest[k + 1].roles[i].role = roles[i]
            /\ gwRequest[k + 1].roles[k] = ImageRole(k, "TARGET")
            /\ gwRequest[k + 2] = TextPart(gwArgs.prompt)

\* An editImage request with a character reference, an additional image and the
\* target is out.
C16_Witness ==
    /\ gwOp = "editImage"
    /\ gwPhase = "awaiting"
    /\ Len(gwRequest) = 5
    /\ gwRequest[4].roles = <<ImageRole(1, "REFERENCE"), ImageRole(2, "ELEMENT"),
                              ImageRole(3, "TARGET")>>

\* The five fixed strings, by band of the faithfulness value.
faithfulnessBand(v) ==
    CASE v \in 0..20 -> "The character's likeness is a loose inspiration"
      [] v \in 21..40 -> "The output should resemble the character"
      [] v \in 41..60 -> "The output should be a clear representation"
      [] v \in 61..80 -> "A very close and accurate likeness"
      [] OTHER -> "It is CRITICAL that the result is an EXACT match"

\* The faithfulness instruction the outfit request carries.
requestedFaithfulness == gwRequest[2].faithfulness

\* C17: for every v in 0..100 the instruction is the string of v's band:
\* v <= 20, else v <= 40, else v <= 60, else v <= 80, else the fifth; 20, 40, 60
\* and 80 fall in the lower band and 100 in the top band.
C17_FaithfulnessBands ==
    (gwOp = "generateOutfitForCharacter" /\ gwRequest # <<>>) =>
        /\ requestedFaithfulness = faithfulnessBand(gwArgs.faithfulness)
        /\ gwArgs.faithfulness = 20 =>
              requestedFaithfulness = "The character's likeness is a loose inspiration"
        /\ gwArgs.faithfulness = 40 =>
              requestedFaithfulness = "The output should resemble the character"
        /\ gwArgs.faithfulness = 60 =>
              requestedFaithfulness = "The output should be a clear representation"
        /\ gwArgs.faithfulness = 80 =>
              requestedFaithfulness = "A very close and accurate likeness"
        /\ gwArgs.faithfulness = 100 =>
              requestedFaithfulness = "It is CRITICAL that the result is an EXACT match"

\* An outfit request at the boundary value 80 carries the fourth string.
C17_Witness ==
    /\ gwOp = "generateOutfitForCharacter"
    /\ gwPhase = "awaiting"
    /\ gwArgs.faithfulness = 80
    /\ gwRequest[2].faithfulness = "A very close and accurate likeness"

(***************************************************************************)
(* Properties of the character store.                                      *)
(***************************************************************************)
\* The ids in the store.
storedIds == {characters[i].id : i \in DOMAIN characters}

\* The creator is open on a character whose id is in the store.
editingStored == isCharCreatorOpen /\ characterToEdit # NoCharacter
                 /\ characterToEdit.id \in storedIds

\* The creator is open on a character whose id is no longer in the store.
editingRemoved == isCharCreatorOpen /\ characterToEdit # NoCharacter
                  /\ characterToEdit.id \notin storedIds

\* C18: saving an edit of a stored character keeps its id, its index and the
\* length of the list, replaces name, description and reference image by the
\* submitted values and leaves every other character as it was.
C18_UpdateInPlace ==
    [][\A n \in Names, d \in Descriptions, img \in Portraits :
          (editingStored /\ handleSave(n, d, img)) =>
              LET i == CHOOSE k \in DOMAIN characters : characters[k].id = characterToEdit.id
              IN  /\ Len(characters') = Len(characters)
                  /\ characters'[i] = [id |-> characters[i].id, name |-> n,
                                       description |-> d, referenceImageBase64 |-> img]
                  /\ \A j \in DOMAIN characters : j # i => characters'[j] = characters[j]]_vars

\* The stored character 0 was edited in place, ahead of a character created later.
C18_Witness ==
    /\ ~isCharCreatorOpen
    /\ Len(characters) = 2
    /\ characters[1] = [id |-> 0, name |-> "n1", description |-> "d1",
                        referenceImageBase64 |-> "b"]
    /\ characters[2].id = 1

\* C19: a save from the edit flow for an id that is not in the store leaves the
\* character list unchanged.
C19_UpdateOfMissingIdIsNoOp ==
    [][\A n \in Names, d \in Descriptions, img \in Portraits :
          (editingRemoved /\ handleSave(n, d, img)) => characters' = characters]_vars

\* C20: no two characters in the store share an id, and a save from the create
\* flow adds one character whose id is none of the ids in the store.
C20_UniqueIds ==
    /\ [](\A i, j \in DOMAIN characters : characters[i].id = characters[j].id => i = j)
    /\ [][\A n \in Names, d \in Descriptions, img \in Portraits :
             (characterToEdit = NoCharacter /\ handleSave(n, d, img)) =>
                 /\ Len(characters') = Len(characters) + 1
                 /\ characters'[Len(characters')].id \notin storedIds
                 /\ SubSeq(characters', 1, Len(characters)) = characters]_vars

\* Two characters were created after the stored one had been edited.
C20_Witness ==
    /\ ~isCharCreatorOpen
    /\ Len(characters) = 3
    /\ characters[1].id = 0 /\ characters[1].name # "n0"
    /\ characters[2].id = 1
    /\ characters[3].id = 2

(***************************************************************************)
(* Properties of persistence and startup.                                  *)
(***************************************************************************)
\* Both keys hold the serialization of the lists in memory.
writtenThrough ==
    /\ lsCharacters = stringify(characters)
    /\ lsGallery = stringify(galleryImages)

unreadable(text) == text \in {Missing, Corrupt}

\* C22: when the data under a key is missing or cannot be parsed, startup ends
\* without an uncaught error, with the empty list for that key's collection and
\* with no error shown.
C22_TolerantLoad ==
    /\ [](appPhase = "crashed" =>
             (lsStartup.characters = NotAList \/ lsStartup.gallery = NotAList))
    /\ [][(appPhase # "ready" /\ appPhase' = "ready") =>
            /\ unreadable(lsStartup.characters) => characters' = <<>>
            /\ unreadable(lsStartup.gallery) => galleryImages' = <<>>
            /\ (unreadable(lsStartup.characters) \/ unreadable(lsStartup.gallery)) =>
                  error' = Null]_vars

\* Startup has ended on unparsable character data and a missing gallery.
C22_Witness ==
    /\ appPhase = "ready"
    /\ lsStartup = [characters |-> Corrupt, gallery |-> Missing]
    /\ characters = <<>>
    /\ galleryImages = <<>>
    /\ error = Null
    /\ prompt = ""

\* The key held the serialization of a list with entries when the App started.
heldEntries(text) == text.kind = "json" /\ text.list # <<>>

\* C27: with storage that accepts writes, when startup ends, unparsable
\* character data has not kept a valid persisted gallery from being rehydrated
\* nor replaced it in storage by the empty list, and unparsable gallery data has
\* not done so to the characters.
C27_StoreIndependence ==
    [][(appPhase # "ready" /\ appPhase' = "ready" /\ ~lsFallible) =>
          /\ (lsStartup.characters = Corrupt /\ heldEntries(lsStartup.gallery)) =>
                /\ galleryImages' = lsStartup.gallery.list
                /\ lsGallery' = lsStartup.gallery
          /\ (lsStartup.gallery = Corrupt /\ heldEntries(lsStartup.characters)) =>
                /\ characters' = lsStartup.characters.list
                /\ lsCharacters' = lsStartup.characters]_vars

\* C28: from the mount until the loaded lists have been rendered, each key that
\* held a list with entries before startup still holds that list.
C28_StartupKeepsStorage ==
    appPhase = "mounted" =>
        /\ heldEntries(lsStartup.characters) => lsCharacters = lsStartup.characters
        /\ heldEntries(lsStartup.gallery) => lsGallery = lsStartup.gallery

(***************************************************************************)
(* Properties of overlapping requests.                                     *)
(***************************************************************************)
\* The requests that add to the gallery from the main page and from the outfit
\* generator, which run side by side: opening the modal needs no idle page, and
\* the page's Generate button does not look at the modal.
NextOverlap ==
    \/ \E p \in Prompts : setPrompt(p)
    \/ ClickGenerate
    \/ \E i \in DOMAIN mainFlights, img \in Images : SubmitResolves(i, img)
    \/ \E i \in DOMAIN mainFlights : SubmitRejects(i)
    \/ \E i \in DOMAIN characters : handleOpenOutfitGenerator(i)
    \/ \E p \in Prompts : setOutfitPrompt(p)
    \/ ClickGenerateOutfit
    \/ \E img \in Images : OutfitResolves(img)
    \/ OutfitRejects
    \/ outfitHandleClose

SpecOverlap == Init /\ [][NextOverlap]_vars

\* A request that may add to the gallery is in flight.
requestInFlight == outfitFlights > 0 \/ mainFlights # <<>>

\* C23: a successful completion of a submit or of an outfit generation, with
\* or without another request still in flight or completed since it started,
\* puts exactly one new entry at the front of the gallery as it is at that
\* moment; no entry is lost or duplicated, so the gallery is in the order of
\* completion.
C23_CompletionOrder ==
    /\ [](\A j, k \in DOMAIN galleryImages : galleryImages[j].id = galleryImages[k].id => j = k)
    /\ [][requestInFlight =>
            /\ \A i \in DOMAIN mainFlights, img \in Images :
                  SubmitResolves(i, img) =>
                     /\ Len(galleryImages') = Len(galleryImages) + 1
                     /\ galleryImages'[1].editedImageBase64 = img
                     /\ SubSeq(galleryImages', 2, Len(galleryImages')) = galleryImages
            /\ \A img \in Images :
                  OutfitResolves(img) =>
                     /\ Len(galleryImages') = Len(galleryImages) + 1
                     /\ galleryImages'[1].editedImageBase64 = img
                     /\ SubSeq(galleryImages', 2, Len(galleryImages')) = galleryImages
            /\ Len(galleryImages') > Len(galleryImages) =>
                  /\ Len(galleryImages') = Len(galleryImages) + 1
                  /\ \A k \in DOMAIN galleryImages : galleryImages[k].id # galleryImages'[1].id
                  /\ Len(mainFlights') + outfitFlights' = Len(mainFlights) + outfitFlights - 1]_vars

\* A submit that started on an empty gallery is still in flight, and an outfit
\* generation whose modal had been closed has completed meanwhile and is in the
\* gallery.
C23_Witness ==
    /\ Len(mainFlights) = 1
    /\ mainFlights[1].kind \in {"generate", "edit"}
    /\ mainFlights[1].galleryImages = <<>>
    /\ ~isOutfitGeneratorOpen
    /\ outfitFlights = 0
    /\ generatedOutfit # NoResult
    /\ Len(galleryImages) = 1
    /\ galleryImages[1].editedImageBase64 = generatedOutfit.editedImageBase64

(***************************************************************************)
(* Overlapping uploads: the ImageUploader stays enabled while a read is    *)
(* pending, so a second file can be chosen before the first one is read.   *)
(***************************************************************************)
\* The files the user picks when uploading twice.
TwoFiles == UserFiles \cup {[base64 |-> "b", mimeType |-> "image/png"]}

\* handleImageUpload(file) while earlier reads may still be pending
handleImageUploadOverlapping(file) ==
    /\ mode = "edit"
    /\ Len(fileReads) < MaxReads
    /\ BeginUpload(file)
    /\ result' = NoResult
    /\ UNCHANGED <<offPageVars, mode, prompt, isLoading, isUpscaling, galleryImages, characters,
                   selectedCharacterId, imageFaithfulness, aspectRatio, mainFlights,
                   gallerySelects, nextUuid,
                   outfitVars, creatorVars>>
    /\ saveEffects

NextUploads ==
    \/ \E m \in Modes : handleModeChange(m)
    \/ \E p \in Prompts : setPrompt(p)
    \/ \E r \in AspectRatios : setAspectRatio(r)
    \/ \E f \in TwoFiles : handleImageUploadOverlapping(f)
    \/ \E i \in DOMAIN fileReads : FileReadResolves(i)
    \/ \E i \in DOMAIN fileReads : FileReadRejects(i)

SpecUploads == Init /\ [][NextUploads]_vars

(***************************************************************************)
(* Properties of overlapping uploads.                                      *)
(***************************************************************************)
\* C29: once every read of the uploads has completed, the stored working image
\* (uploadedImageData), when there is one next to a preview, is the file of
\* the displayed preview, that is of the upload started last.
C29_LatestUploadWins ==
    (fileReads = <<>> /\ imagePreview # NoFile /\ uploadedImageData # NoFile)
        => uploadedImageData = imagePreview

(***************************************************************************)
(* The upscale specification: handleUpscale called as a handler, whether   *)
(* or not the Upscale button is rendered, next to the events that write    *)
(* the result and the gallery while an upscale is in flight.               *)
(***************************************************************************)
NextUpscale ==
    \/ \E p \in Prompts : setPrompt(p)
    \/ \E m \in Modes : handleModeChange(m)
    \/ ClickGenerate
    \/ \E i \in DOMAIN mainFlights, img \in Images : SubmitResolves(i, img)
    \/ \E i \in DOMAIN mainFlights : SubmitRejects(i)
    \/ handleUpscale
    \/ \E i \in DOMAIN mainFlights, img \in Images : UpscaleResolves(i, img)
    \/ \E i \in DOMAIN mainFlights : UpscaleRejects(i)
    \/ \E k \in DOMAIN galleryImages : handleGallerySelect(k)
    \/ \E i \in DOMAIN gallerySelects : GallerySelectContinues(i)
    \/ \E i \in DOMAIN fileReads : FileReadResolves(i)
    \/ \E i \in DOMAIN fileReads : FileReadRejects(i)

SpecUpscale == Init /\ [][NextUpscale]_vars

MaxReferenceImages == 5

\* Array.prototype.slice(0, end): a negative end counts from the end of the array
slice(array, end) ==
    IF end >= 0
    THEN SubSeq(array, 1, IF end < Len(array) THEN end ELSE Len(array))
    ELSE SubSeq(array, 1, IF Len(array) + end > 0 THEN Len(array) + end ELSE 0)

\* e.target.files: n files; every entry read from one is { id, data, mimeType, preview }
Selection(n) == [k \in 1..n |-> "ref"]

\* {referenceImages.length < 5 && (<input type="file" multiple onChange={handleFileChange} />)}
handleFileChange(n) ==
    /\ isCharCreatorOpen
    /\ Len(referenceImages) < MaxReferenceImages
    /\ LET files == slice(Selection(n), MaxReferenceImages - Len(referenceImages))
       IN  IF Len(files) = 0
           THEN UNCHANGED refReads
           ELSE /\ Len(refReads) < MaxBatches
                /\ refReads' = Append(refReads, files)
    /\ UNCHANGED <<appVars, gatewayVars, storageVars, asideVars, referenceImages, creatorError>>

\* const newImagesData = await Promise.all(newImagesPromises);
\* setReferenceImages(prev => [...prev, ...newImagesData])
RefReadResolves(i) ==
    /\ i \in DOMAIN refReads
    /\ referenceImages' = referenceImages \o refReads[i]
    /\ refReads' = RemoveAt(refReads, i)
    /\ UNCHANGED <<appVars, gatewayVars, storageVars, asideVars, creatorError>>

\* catch (err) { setError(`Could not read one of the files. ...`) }
RefReadRejects(i) ==
    /\ i \in DOMAIN refReads
    /\ creatorError' = "Could not read one of the files. Please try again."
    /\ refReads' = RemoveAt(refReads, i)
    /\ UNCHANGED <<appVars, gatewayVars, storageVars, asideVars, referenceImages>>

NextCreator ==
    \/ handleOpenCharCreator(NoCharacter)
    \/ \E i \in DOMAIN characters : handleOpenCharCreator(characters[i])
    \/ creatorHandleClose
    \/ \E n \in 0..MaxSelected : handleFileChange(n)
    \/ \E i \in DOMAIN refReads : RefReadResolves(i)
    \/ \E i \in DOMAIN refReads : RefReadRejects(i)

SpecCreator == Init /\ [][NextCreator]_vars

(***************************************************************************)
(* Properties of the reference images.                                     *)
(***************************************************************************)
\* C24: the list of reference images never holds more than 5 entries.
C24_ReferenceImageCap == Len(referenceImages) <= MaxReferenceImages

(***************************************************************************)
(* geminiService.generateVideo: one request that starts a long-running     *)
(* operation at the provider, then a loop that waits and asks for the      *)
(* operation again until it is done.                                       *)
(***************************************************************************)
\* setTimeout(resolve, 10000)
PollInterval == 10000

VideoAspectRatios == {"16:9", "9:16"}
VideoArgs == [prompt : Prompts, image : {NoFile} \cup UserFiles, aspectRatio : VideoAspectRatios]

\* The provider's operation: running, finished with a video, or finished with none.
VideoUri == "uri"
operationOf(job) ==
    [done |-> job # "running", uri |-> IF job = "finished" THEN VideoUri ELSE ""]

\* Errors the video requests may throw.
VideoProviderMessages == {<<"500">>, <<"quota exceeded">>}
NoLinkMessage == <<"Video generation completed, but no download link was provided.">>

\* A faulty loop condition that gives up after the first poll.
pollAgainOnce(operation) == ~operation.done /\ vidPolls = 0

\* while (!operation.done)
pollAgain(operation) == ~operation.done

\* generateVideo(prompt, image, aspectRatio) up to `await veaAi.models.generateVideos(...)`
generateVideo(args) ==
    /\ vidPhase = "idle"
    /\ vidPhase' = "starting"
    /\ vidArgs' = args
    /\ vidJob' = "running"
    /\ UNCHANGED <<appVars, gatewayVars, storageVars, creatorFormVars, transcodingVars,
                   vidOperation, vidPolls, vidWaited, vidResult>>

\* The provider completes the operation, with a video or without one.
VideoFinishes(outcome) ==
    /\ vidJob = "running"
    /\ vidJob' = outcome
    /\ UNCHANGED <<appVars, gatewayVars, storageVars, creatorFormVars, transcodingVars,
                   vidPhase, vidArgs, vidOperation, vidPolls, vidWaited, vidResult>>

\* let operation = await veaAi.models.generateVideos(...) resolved
GenerateVideosReturns ==
    /\ vidPhase = "starting"
    /\ vidPhase' = "checking"
    /\ vidOperation' = operationOf(vidJob)
    /\ UNCHANGED <<appVars, gatewayVars, storageVars, creatorFormVars, transcodingVars,
                   vidArgs, vidJob, vidPolls, vidWaited, vidResult>>

\* The loop is entered: await new Promise(resolve => setTimeout(resolve, 10000))
WaitBeforePoll ==
    /\ vidPhase = "checking"
    /\ pollAgain(vidOperation)
    /\ vidPhase' = "waiting"
    /\ vidWaited' = 0
    /\ UNCHANGED <<appVars, gatewayVars, storageVars, creatorFormVars, transcodingVars,
                   vidArgs, vidJob, vidOperation, vidPolls, vidResult>>

\* The timer fires: veaAi.operations.getVideosOperation({ operation }) is called
TimerFires ==
    /\ vidPhase = "waiting"
    /\ vidPhase' = "polling"
    /\ vidWaited' = PollInterval
    /\ UNCHANGED <<appVars, gatewayVars, storageVars, creatorFormVars, transcodingVars,
                   vidArgs, vidJob, vidOperation, vidPolls, vidResult>>

\* operation = await veaAi.operations.getVideosOperation(...) resolved.  The model
\* lets the provider answer "not done" MaxPolls times; the loop has no such limit.
GetVideosOperationReturns ==
    /\ vidPhase = "polling"
    /\ vidJob # "running" \/ vidPolls < MaxPolls
    /\ vidPhase' = "checking"
    /\ vidOperation' = operationOf(vidJob)
    /\ vidPolls' = vidPolls + 1
    /\ UNCHANGED <<appVars, gatewayVars, storageVars, creatorFormVars, transcodingVars,
                   vidArgs, vidJob, vidWaited, vidResult>>

\* The loop is left: return { videoUrl: downloadLink, prompt } if (downloadLink), else
\* throw new Error(...), which the catch hands to handleApiError(e, 'generate the video')
VideoLoopExits ==
    /\ vidPhase = "checking"
    /\ ~pollAgain(vidOperation)
    /\ IF vidOperation.uri # ""
       THEN /\ vidPhase' = "returned"
            /\ vidResult' = [kind |-> "returned", videoUrl |-> vidOperation.uri,
                             prompt |-> vidArgs.prompt, message |-> <<>>]
       ELSE /\ vidPhase' = "thrown"
            /\ vidResult' = [kind |-> "thrown", videoUrl |-> "", prompt |-> "",
                             message |-> handleApiError(NoLinkMessage, "generate the video")]
    /\ UNCHANGED <<appVars, gatewayVars, storageVars, creatorFormVars, transcodingVars,
                   vidArgs, vidJob, vidOperation, vidPolls, vidWaited>>

\* One of the two provider requests throws: catch (e) { handleApiError(e, 'generate the video') }
VideoRequestThrows(errorMessage) ==
    /\ vidPhase \in {"starting", "polling"}
    /\ vidPhase' = "thrown"
    /\ vidResult' = [kind |-> "thrown", videoUrl |-> "", prompt |-> "",
                     message |-> handleApiError(errorMessage, "generate the video")]
    /\ UNCHANGED <<appVars, gatewayVars, storageVars, creatorFormVars, transcodingVars,
                   vidArgs, vidJob, vidOperation, vidPolls, vidWaited>>

\* The steps the event loop and an answering provider guarantee: a resolved
\* await continues, a timer fires, a request is answered.
VideoCallSteps ==
    \/ GenerateVideosReturns
    \/ WaitBeforePoll
    \/ TimerFires
    \/ GetVideosOperationReturns
    \/ VideoLoopExits

NextVideo ==
    \/ \E args \in VideoArgs : generateVideo(args)
    \/ \E outcome \in {"finished", "empty"} : VideoFinishes(outcome)
    \/ VideoCallSteps
    \/ \E m \in VideoProviderMessages : VideoRequestThrows(m)

SpecVideo == Init /\ [][NextVideo]_vars /\ WF_vars(VideoCallSteps)

(***************************************************************************)
(* Properties of the video call.                                           *)
(***************************************************************************)
videoSettled == vidPhase \in {"returned", "thrown"}

\* C25: generateVideo resolves only with an operation that is done and has a
\* download URI, and resolves with that URI; while the operation it holds is not
\* done its next step is the wait, of the fixed interval, followed by the next
\* poll, however many polls there have been; with a done operation it resolves if
\* the URI is present and fails otherwise; and once the provider has finished
\* the operation a started call eventually settles.
C25_VideoPolling ==
    /\ [](vidPhase = "returned" =>
              /\ vidOperation.done
              /\ vidJob = "finished"
              /\ vidResult.kind = "returned"
              /\ vidResult.videoUrl = vidOperation.uri
              /\ vidResult.videoUrl # ""
              /\ vidResult.prompt = vidArgs.prompt)
    /\ [][/\ (vidPhase = "checking" /\ ~vidOperation.done /\ vidPhase' # vidPhase)
               => vidPhase' = "waiting"
          /\ (vidPhase = "waiting" /\ vidPhase' # vidPhase)
               => vidPhase' = "polling" /\ vidWaited' = PollInterval
          /\ (vidPhase = "polling" /\ vidPhase' = "checking")
               => vidWaited = PollInterval /\ vidPolls' = vidPolls + 1
          /\ (vidPhase = "checking" /\ vidOperation.done /\ vidPhase' # vidPhase)
               => IF vidOperation.uri # ""
                  THEN vidPhase' = "returned"
                  ELSE vidPhase' = "thrown" /\ vidResult'.message # <<>>]_vars
    /\ ((vidPhase # "idle" /\ vidJob # "running") ~> videoSettled)

\* The call resolved after the provider had answered "not done" MaxPolls times.
C25_Witness ==
    /\ vidPhase = "returned"
    /\ vidPolls = MaxPolls + 1
    /\ vidWaited = PollInterval
    /\ vidResult.videoUrl = VideoUri

(***************************************************************************)
(* Transcoding: fileToBase64 (utils/fileUtils.ts) reads a file as a data   *)
(* URL and keeps the base64 text after the comma; the App rebuilds a file  *)
(* from base64 text with dataURLtoFile (earlier App) or with fetch of a    *)
(* data URL (handleGallerySelect).  Base64 text is a sequence of sextets,  *)
(* Pad standing for '='.                                                   *)
(***************************************************************************)
ByteValues == {0, 77, 255}
FileTypes == {"image/png", "image/jpeg", ""}
BinaryFiles == [bytes : UNION {[1..n -> ByteValues] : n \in 0..MaxBytes}, type : FileTypes]

Pad == 64

\* The base64 text of a byte sequence, as FileReader.readAsDataURL writes it.
RECURSIVE base64Encode(_)
base64Encode(bytes) ==
    IF Len(bytes) = 0 THEN <<>>
    ELSE IF Len(bytes) = 1
    THEN <<bytes[1] \div 4, (bytes[1] % 4) * 16, Pad, Pad>>
    ELSE IF Len(bytes) = 2
    THEN <<bytes[1] \div 4, (bytes[1] % 4) * 16 + bytes[2] \div 16, (bytes[2] % 16) * 4, Pad>>
    ELSE <<bytes[1] \div 4, (bytes[1] % 4) * 16 + bytes[2] \div 16,
           (bytes[2] % 16) * 4 + bytes[3] \div 64, bytes[3] % 64>>
         \o base64Encode(SubSeq(bytes, 4, Len(bytes)))

\* atob(text): the char codes of the binary string; the browser's decoding of a
\* base64 data URL body yields the same bytes.
RECURSIVE atob(_)
atob(text) ==
    IF Len(text) < 4 THEN <<>>
    ELSE LET b1 == text[1] * 4 + text[2] \div 16
             b2 == (text[2] % 16) * 16 + text[3] \div 4
             b3 == (text[3] % 4) * 64 + text[4]
             rest == atob(SubSeq(text, 5, Len(text)))
         IN  IF text[3] = Pad THEN <<b1>>
             ELSE IF text[4] = Pad THEN <<b1, b2>>
             ELSE <<b1, b2, b3>> \o rest

\* `data:${mime};base64,${payload}`; comma is FALSE for the bare "data:" some
\* browsers give for an empty file.
DataUrl(mime, payload) == [mime |-> mime, comma |-> TRUE, payload |-> payload]

\* reader.readAsDataURL(file): the results the browser may give
readAsDataURL(file) ==
    LET mime == IF file.type = "" THEN "application/octet-stream" ELSE file.type
    IN  {DataUrl(mime, base64Encode(file.bytes))}
        \cup IF file.bytes = <<>> THEN {[mime |-> "", comma |-> FALSE, payload |-> <<>>]} ELSE {}

\* dataURLtoFile(dataurl, filename): mime from /:(.*?);/, bytes from atob and charCodeAt
dataURLtoFile(dataurl) ==
    LET bstr == atob(dataurl.payload)
    IN  [bytes |-> [n \in DOMAIN bstr |-> bstr[n] % 256], type |-> dataurl.mime]

\* <input type="file">: the user picks a file
ChooseFile(file) ==
    /\ tcPhase = "idle"
    /\ tcPhase' = "chosen"
    /\ tcFile' = file
    /\ UNCHANGED <<appVars, gatewayVars, storageVars, creatorFormVars, videoVars,
                   tcEncoded, tcDecoded>>

\* reader.onload with a result that has a comma:
\* resolve({ base64: result.split(',')[1], mimeType: file.type })
FileToBase64Resolves ==
    /\ tcPhase = "chosen"
    /\ \E url \in readAsDataURL(tcFile) :
          /\ url.comma
          /\ tcEncoded' = [base64 |-> url.payload, mimeType |-> tcFile.type]
    /\ tcPhase' = "encoded"
    /\ UNCHANGED <<appVars, gatewayVars, storageVars, creatorFormVars, videoVars,
                   tcFile, tcDecoded>>

\* reader.onerror, or reader.onload with a result without a comma: reject
FileToBase64Rejects ==
    /\ tcPhase = "chosen"
    /\ tcPhase' = "failed"
    /\ UNCHANGED <<appVars, gatewayVars, storageVars, creatorFormVars, videoVars,
                   tcFile, tcEncoded, tcDecoded>>

\* dataURLtoFile(`data:image/png;base64,${base64}`, name) (earlier App, lines 115 and 122)
ReconstructByDataURLtoFile ==
    /\ tcPhase = "encoded"
    /\ tcDecoded' = dataURLtoFile(DataUrl("image/png", tcEncoded.base64))
    /\ tcPhase' = "converted"
    /\ UNCHANGED <<appVars, gatewayVars, storageVars, creatorFormVars, videoVars,
                   tcFile, tcEncoded>>

\* fetch(`data:image/png;base64,${base64}`).then(res => res.blob())
\*   .then(blob => new File([blob], name, { type: 'image/png' }))
ReconstructByFetch ==
    /\ tcPhase = "encoded"
    /\ tcDecoded' = [bytes |-> atob(DataUrl("image/png", tcEncoded.base64).payload),
                     type |-> "image/png"]
    /\ tcPhase' = "fetched"
    /\ UNCHANGED <<appVars, gatewayVars, storageVars, creatorFormVars, videoVars,
                   tcFile, tcEncoded>>

NextTranscoding ==
    \/ \E file \in BinaryFiles : ChooseFile(file)
    \/ FileToBase64Resolves
    \/ FileToBase64Rejects
    \/ ReconstructByDataURLtoFile
    \/ ReconstructByFetch

SpecTranscoding == Init /\ [][NextTranscoding]_vars

(***************************************************************************)
(* Properties of the transcoding.                                          *)
(***************************************************************************)
\* C26: the file rebuilt from the base64 data of a non-empty file of a declared
\* type has the bytes of the original file and its MIME type.
C26_RoundTrip ==
    (tcPhase \in {"converted", "fetched"} /\ tcFile.bytes # <<>> /\ tcFile.type # "") =>
        /\ tcDecoded.bytes = tcFile.bytes
        /\ tcDecoded.type = tcFile.type

====
